---- MODULE Spec2Model ----
(***************************************************************************)
(* Model of the inline working-diff extension: the hunk parser             *)
(* (parseGitDiff), the character differ (diffStrings), the annotation      *)
(* projector (DiffDecorationProvider.calculateDecorations), the decoration *)
(* manager and the event handlers of extension.ts.                         *)
(*                                                                         *)
(* Strings are sequences of one-character strings; JavaScript's 0-based    *)
(* index k is TLA+ index k + 1.                                            *)
(***************************************************************************)
EXTENDS Integers, Sequences, FiniteSets, TLC

VARIABLES
    pc,          \* which part is modelled and where it stands:
                 \*   "input" / "done"   calculateDecorations
                 \*   "walking" / "done" calculateDecorations, one loop
                 \*                      iteration per step
                 \*   "text" / "parsed"  parseGitDiff
                 \*   "lines" / "read"   both parseGitDiff on one text
                 \*   "events"           the activated extension
                 \*   "manager"          the DecorationManager, called
                 \*                      method by method
                 \*   "strings" / "diffed"  diffStrings
    parsedDiff,  \* the hunk sequence handed to calculateDecorations
    document,    \* editor.document as the sequence of its live line texts
    result,      \* what calculateDecorations returned (or that it threw)
    walk,        \* the locals of a calculateDecorations call under way:
                 \* the accumulated lists and cursors, the hunk and the
                 \* record the loops stand at (NoWalk outside such a call)
    diffOutput,  \* the diff text handed to parseGitDiff
    parseResult, \* result.hunks as returned by parseGitDiff
    extParseResult, \* result.hunks as returned by the parseGitDiff of
                    \* extension.ts
    oldStr,      \* the old line handed to diffStrings
    newStr,      \* the new line handed to diffStrings
    charSegments, \* what diffStrings of diffParser.ts returned
    changes,     \* what diffStrings of extension.ts returned
    inlineDiffDecorationEnabled,  \* extension.ts: the toggle flag
    updateTimeout,  \* extension.ts: the stored timer handle (0 = null)
    timers,         \* timers set by setTimeout that are still pending
    nextTimer,      \* the handle the next setTimeout returns
    activeEditor,   \* vscode.window.activeTextEditor (or NoEditor)
    runs,           \* showDiffForEditor invocations suspended at an await
    resuming,       \* invocations of the toggle command whose awaited
                    \* showDiffForEditor has returned and that have not yet
                    \* resumed behind their await
    nextRun,        \* the number of the next showDiffForEditor invocation
    deco,           \* decorations on the editors and the maps tracking them
    lastEvent,      \* the event handled by the last step
    lastEdit        \* the value of nextRun at the last edit of the active
                    \* document made with the feature on, the feature and
                    \* the active editor unchanged since (0: no such edit)

projVars == <<parsedDiff, document, result, walk>>
parseVars == <<diffOutput, parseResult, extParseResult>>
diffVars == <<oldStr, newStr, charSegments, changes>>
callVars == <<pc, parsedDiff, document, result, walk, diffOutput, parseResult,
              extParseResult,
              oldStr, newStr, charSegments, changes>>
extVars == <<inlineDiffDecorationEnabled, updateTimeout, timers, nextTimer,
             activeEditor, runs, resuming, nextRun, deco, lastEvent, lastEdit>>
vars == <<pc, parsedDiff, document, result, walk, diffOutput, parseResult,
          extParseResult,
          oldStr, newStr, charSegments, changes,
          inlineDiffDecorationEnabled, updateTimeout, timers, nextTimer,
          activeEditor, runs, resuming, nextRun, deco, lastEvent, lastEdit>>

(***************************************************************************)
(* Bounds of the model.                                                    *)
(***************************************************************************)
MaxRecs == 4
MaxLines == 2
MaxNewStart == 2
MaxDiffLines == 4
MaxRuns == 3
MaxTimers == 2
MaxStrLen == 3
MaxFirstRecs == 2
MaxHeaderLines == 3

(***************************************************************************)
(* Helpers on strings and sequences.                                       *)
(***************************************************************************)
Min(a, b) == IF a < b THEN a ELSE b
Max(a, b) == IF a > b THEN a ELSE b

\* String.prototype.slice(from, to) on 0-based, half-open positions.
Slice(s, from, to) == SubSeq(s, from + 1, to)

SeqsUpTo(S, n) == UNION { [1..k -> S] : k \in 0..n }

NoVal == "undefined"

\* No call of calculateDecorations is under way.
NoWalk == [k |-> -1]

(***************************************************************************)
(* diffStrings: Diff.diffChars of the 'diff' library, version 5.2.0 (Myers' *)
(* O(ND) search as the library runs it: on a tie it branches from the      *)
(* insertion).  A path is the oldPos reached on a diagonal (diagonal =     *)
(* oldPos - newPos) with its list of components.                           *)
(***************************************************************************)
\* An emptied slot of bestPath (undefined in the library).
NoPath == [live |-> FALSE, oldPos |-> -1, comps |-> <<>>]

\* addToPath: extend a path by one insertion or removal, merging it into
\* the last component when that one has the same flags.
AddToPath_NoMerge(path, added, removed, oldPosInc) ==
    [live   |-> TRUE,
     oldPos |-> path.oldPos + oldPosInc,
     comps  |-> Append(path.comps,
                       [count |-> 1, added |-> added, removed |-> removed])]

AddToPath(path, added, removed, oldPosInc) ==
    LET n == Len(path.comps)
    IN  IF n > 0 /\ path.comps[n].added = added /\ path.comps[n].removed = removed
        THEN [live   |-> TRUE,
              oldPos |-> path.oldPos + oldPosInc,
              comps  |-> [path.comps EXCEPT ![n].count = @ + 1]]
        ELSE [live   |-> TRUE,
              oldPos |-> path.oldPos + oldPosInc,
              comps  |-> Append(path.comps,
                                [count |-> 1, added |-> added, removed |-> removed])]

\* The while loop of extractCommon: how many equal characters follow.
RECURSIVE CommonCount(_, _, _, _)
CommonCount(oldPos, newPos, oldString, newString) ==
    IF /\ newPos + 1 < Len(newString)
       /\ oldPos + 1 < Len(oldString)
       /\ oldString[oldPos + 2] = newString[newPos + 2]
    THEN 1 + CommonCount(oldPos + 1, newPos + 1, oldString, newString)
    ELSE 0

\* extractCommon: slide down the diagonal; returns the updated path.
ExtractCommon_Unmerged(basePath, newString, oldString, diagonalPath) ==
    LET c == CommonCount(basePath.oldPos, basePath.oldPos - diagonalPath,
                         oldString, newString)
    IN  [live   |-> TRUE,
         oldPos |-> basePath.oldPos + c,
         comps  |-> basePath.comps
                    \o [k \in 1..c |-> [count |-> 1, added |-> FALSE,
                                         removed |-> FALSE]]]

ExtractCommon(basePath, newString, oldString, diagonalPath) ==
    LET c == CommonCount(basePath.oldPos, basePath.oldPos - diagonalPath,
                         oldString, newString)
    IN  [live   |-> TRUE,
         oldPos |-> basePath.oldPos + c,
         comps  |-> IF c > 0
                    THEN Append(basePath.comps,
                                [count |-> c, added |-> FALSE, removed |-> FALSE])
                    ELSE basePath.comps]

\* buildValues: give every component its text, in the order of the path;
\* a removed component that comes right after an added one is put before
\* it ("removes are output first").  The components of diffChars count at
\* least one character, so the merge of an empty last component never
\* applies.
BuildValues_NoOldAdvance(comps, newString, oldString, newPos, oldPos) ==
    LET RECURSIVE Loop(_, _, _, _)
        Loop(componentPos, np, op, out) ==
            IF componentPos > Len(comps) THEN out
            ELSE LET c == comps[componentPos]
                 IN  IF ~c.removed
                     THEN Loop(componentPos + 1, np + c.count, op,
                               Append(out, [value   |-> Slice(newString, np, np + c.count),
                                            added   |-> c.added,
                                            removed |-> FALSE]))
                     ELSE LET part == [value   |-> Slice(oldString, op, op + c.count),
                                       added   |-> FALSE,
                                       removed |-> TRUE]
                              n    == Len(out)
                          IN  Loop(componentPos + 1, np, op + c.count,
                                   IF n > 0 /\ out[n].added
                                   THEN SubSeq(out, 1, n - 1) \o <<part, out[n]>>
                                   ELSE Append(out, part))
    IN  Loop(1, newPos, oldPos, <<>>)

BuildValues(comps, newString, oldString, newPos, oldPos) ==
    LET RECURSIVE Loop(_, _, _, _)
        Loop(componentPos, np, op, out) ==
            IF componentPos > Len(comps) THEN out
            ELSE LET c == comps[componentPos]
                 IN  IF ~c.removed
                     THEN Loop(componentPos + 1, np + c.count,
                               IF c.added THEN op ELSE op + c.count,
                               Append(out, [value   |-> Slice(newString, np, np + c.count),
                                            added   |-> c.added,
                                            removed |-> FALSE]))
                     ELSE LET part == [value   |-> Slice(oldString, op, op + c.count),
                                       added   |-> FALSE,
                                       removed |-> TRUE]
                              n    == Len(out)
                          IN  Loop(componentPos + 1, np, op + c.count,
                                   IF n > 0 /\ out[n].added
                                   THEN SubSeq(out, 1, n - 1) \o <<part, out[n]>>
                                   ELSE Append(out, part))
    IN  Loop(1, newPos, oldPos, <<>>)

\* One diagonal of execEditLength.  st = [bestPath, minD, maxD, done, out].
DiffDiagonal(st, d, oldString, newString) ==
    LET oldLen     == Len(oldString)
        newLen     == Len(newString)
        removePath == st.bestPath[d - 1]
        addPath    == st.bestPath[d + 1]
        cleared    == IF removePath.live
                      THEN [st.bestPath EXCEPT ![d - 1] = NoPath]
                      ELSE st.bestPath
        canAdd     == /\ addPath.live
                      /\ 0 <= addPath.oldPos - d
                      /\ addPath.oldPos - d < newLen
        canRemove  == /\ removePath.live
                      /\ removePath.oldPos + 1 < oldLen
    IN  IF ~canAdd /\ ~canRemove
        THEN [st EXCEPT !.bestPath = [cleared EXCEPT ![d] = NoPath]]
        ELSE LET chosen   == IF ~canRemove
                                \/ (canAdd /\ removePath.oldPos + 1 < addPath.oldPos)
                             THEN AddToPath(addPath, TRUE, FALSE, 0)
                             ELSE AddToPath(removePath, FALSE, TRUE, 1)
                 basePath == ExtractCommon(chosen, newString, oldString, d)
                 newPos   == basePath.oldPos - d
             IN  IF basePath.oldPos + 1 >= oldLen /\ newPos + 1 >= newLen
                 THEN [st EXCEPT !.done = TRUE,
                                 !.out  = BuildValues(basePath.comps, newString,
                                                      oldString, 0, 0)]
                 ELSE [bestPath |-> [cleared EXCEPT ![d] = basePath],
                       minD |-> IF newPos + 1 >= newLen
                                THEN Max(st.minD, d + 1) ELSE st.minD,
                       maxD |-> IF basePath.oldPos + 1 >= oldLen
                                THEN Min(st.maxD, d - 1) ELSE st.maxD,
                       done |-> FALSE,
                       out  |-> <<>>]

\* The for loop of execEditLength over the diagonals d, d+2, ... <= last.
\* The bounds of the loop are re-read on every iteration, as in the library.
RECURSIVE DiffDiagonals(_, _, _, _, _)
DiffDiagonals(st, d, editLength, oldString, newString) ==
    IF st.done \/ d > Min(st.maxD, editLength) THEN st
    ELSE DiffDiagonals(DiffDiagonal(st, d, oldString, newString),
                       d + 2, editLength, oldString, newString)

\* The outer loop: edit lengths 1, 2, ... up to maxEditLength.
RECURSIVE DiffEditLengths(_, _, _, _)
DiffEditLengths(st, editLength, oldString, newString) ==
    IF st.done \/ editLength > Len(oldString) + Len(newString) THEN st
    ELSE DiffEditLengths(
             DiffDiagonals(st, Max(st.minD, -editLength), editLength,
                           oldString, newString),
             editLength + 1, oldString, newString)

\* Diff.diffChars: the seed of edit length 0, the identity case, and the
\* search by growing edit length.
DiffChars_NoIdentity(oldString, newString) ==
    LET oldLen == Len(oldString)
        newLen == Len(newString)
        far    == oldLen + newLen + 2
        seed   == ExtractCommon([live |-> TRUE, oldPos |-> -1, comps |-> <<>>],
                                newString, oldString, 0)
    IN  DiffEditLengths(
            [bestPath |-> [k \in -far..far |-> IF k = 0 THEN seed ELSE NoPath],
             minD |-> -far, maxD |-> far, done |-> FALSE, out |-> <<>>],
            1, oldString, newString).out

DiffChars(oldString, newString) ==
    LET oldLen == Len(oldString)
        newLen == Len(newString)
        far    == oldLen + newLen + 2
        seed   == ExtractCommon([live |-> TRUE, oldPos |-> -1, comps |-> <<>>],
                                newString, oldString, 0)
    IN  IF seed.oldPos + 1 >= oldLen /\ seed.oldPos + 1 >= newLen
        \* identity: one component holding the whole new string, the
        \* empty one too
        THEN <<[value |-> newString, added |-> FALSE, removed |-> FALSE]>>
        ELSE DiffEditLengths(
                 [bestPath |-> [k \in -far..far |-> IF k = 0 THEN seed ELSE NoPath],
                  minD |-> -far, maxD |-> far, done |-> FALSE, out |-> <<>>],
                 1, oldString, newString).out

\* diffStrings(oldStr, newStr) is a thin call of Diff.diffChars.
diffStrings(oldString, newString) == DiffChars(oldString, newString)

(***************************************************************************)
(* diffStrings of extension.ts: common prefix, common suffix, and what is  *)
(* left in between as one removed and one added range.  A range is         *)
(* [type, start, end] on 0-based, half-open columns.                       *)
(***************************************************************************)
\* while (prefixLength < minLength && oldStr[prefixLength] === newStr[prefixLength])
RECURSIVE PrefixLength(_, _, _)
PrefixLength(oldString, newString, prefixLength) ==
    IF /\ prefixLength < Min(Len(oldString), Len(newString))
       /\ oldString[prefixLength + 1] = newString[prefixLength + 1]
    THEN PrefixLength(oldString, newString, prefixLength + 1)
    ELSE prefixLength

\* The loop on suffixLength, bounded by what the prefix left of each string.
RECURSIVE SuffixLength(_, _, _, _)
SuffixLength(oldString, newString, prefixLength, suffixLength) ==
    IF /\ suffixLength < Len(oldString) - prefixLength
       /\ suffixLength < Len(newString) - prefixLength
       /\ oldString[Len(oldString) - suffixLength]
              = newString[Len(newString) - suffixLength]
    THEN SuffixLength(oldString, newString, prefixLength, suffixLength + 1)
    ELSE suffixLength

Change(type, start, end) == [type |-> type, start |-> start, end |-> end]

extension_diffStrings_SuffixFromZero(oldString, newString) ==
    LET prefixLength    == PrefixLength(oldString, newString, 0)
        suffixLength    == SuffixLength(oldString, newString, 0, 0)
        oldSuffixLength == Len(oldString) - prefixLength - suffixLength
        newSuffixLength == Len(newString) - prefixLength - suffixLength
    IN  (IF prefixLength > 0
         THEN <<Change("unchanged", 0, prefixLength)>> ELSE <<>>)
        \o (IF oldSuffixLength > 0
            THEN <<Change("removed", prefixLength, prefixLength + oldSuffixLength)>>
            ELSE <<>>)
        \o (IF newSuffixLength > 0
            THEN <<Change("added", prefixLength, prefixLength + newSuffixLength)>>
            ELSE <<>>)
        \o (IF suffixLength > 0
            THEN <<Change("unchanged", Len(oldString) - suffixLength, Len(oldString))>>
            ELSE <<>>)

extension_diffStrings(oldString, newString) ==
    LET prefixLength    == PrefixLength(oldString, newString, 0)
        suffixLength    == SuffixLength(oldString, newString, prefixLength, 0)
        oldSuffixLength == Len(oldString) - prefixLength - suffixLength
        newSuffixLength == Len(newString) - prefixLength - suffixLength
    IN  (IF prefixLength > 0
         THEN <<Change("unchanged", 0, prefixLength)>> ELSE <<>>)
        \o (IF oldSuffixLength > 0
            THEN <<Change("removed", prefixLength, prefixLength + oldSuffixLength)>>
            ELSE <<>>)
        \o (IF newSuffixLength > 0
            THEN <<Change("added", prefixLength, prefixLength + newSuffixLength)>>
            ELSE <<>>)
        \o (IF suffixLength > 0
            THEN <<Change("unchanged", Len(oldString) - suffixLength, Len(oldString))>>
            ELSE <<>>)

(***************************************************************************)
(* parseGitDiff (diffParser.ts).                                           *)
(***************************************************************************)
NewLine == "\n"

\* String.prototype.split('\n'): the pieces between the line feeds; a text
\* without line feed (the empty text too) is one piece.
RECURSIVE SplitLines(_, _, _)
SplitLines(text, k, piece) ==
    IF k > Len(text) THEN <<piece>>
    ELSE IF text[k] = NewLine
         THEN <<piece>> \o SplitLines(text, k + 1, <<>>)
         ELSE SplitLines(text, k + 1, Append(piece, text[k]))

IsDigit(c) == c \in {"0", "1", "2", "3", "4", "5", "6", "7", "8", "9"}

DigitValue(c) ==
    CASE c = "0" -> 0 [] c = "1" -> 1 [] c = "2" -> 2 [] c = "3" -> 3
      [] c = "4" -> 4 [] c = "5" -> 5 [] c = "6" -> 6 [] c = "7" -> 7
      [] c = "8" -> 8 [] c = "9" -> 9

\* parseInt(digits, 10) of a non-empty run of decimal digits.
RECURSIVE ParseInt(_)
ParseInt(digits) ==
    IF Len(digits) = 1 THEN DigitValue(digits[1])
    ELSE 10 * ParseInt(SubSeq(digits, 1, Len(digits) - 1))
         + DigitValue(digits[Len(digits)])

\* The greedy match of \d* at position k: how many digits stand there.
RECURSIVE DigitRun(_, _)
DigitRun(line, k) ==
    IF k <= Len(line) /\ IsDigit(line[k]) THEN 1 + DigitRun(line, k + 1) ELSE 0

CharAt(line, k, c) == k <= Len(line) /\ line[k] = c

\* line.match(/^@@ -(\d+),?(\d*) \+(\d+),?(\d*) @@/): whether it matches,
\* and the four groups.  Every quantifier is followed by a character it
\* cannot match, so the greedy match is the only one.
HunkHeaderMatch(line) ==
    LET d1 == DigitRun(line, 5)
        p1 == 5 + d1
        c1 == IF CharAt(line, p1, ",") THEN 1 ELSE 0
        d2 == DigitRun(line, p1 + c1)
        p2 == p1 + c1 + d2
        d3 == DigitRun(line, p2 + 2)
        p3 == p2 + 2 + d3
        c3 == IF CharAt(line, p3, ",") THEN 1 ELSE 0
        d4 == DigitRun(line, p3 + c3)
        p4 == p3 + c3 + d4
        ok == /\ CharAt(line, 1, "@") /\ CharAt(line, 2, "@")
              /\ CharAt(line, 3, " ") /\ CharAt(line, 4, "-")
              /\ d1 >= 1
              /\ CharAt(line, p2, " ") /\ CharAt(line, p2 + 1, "+")
              /\ d3 >= 1
              /\ CharAt(line, p4, " ")
              /\ CharAt(line, p4 + 1, "@") /\ CharAt(line, p4 + 2, "@")
    IN  IF ok
        THEN [matched |-> TRUE,
              g1 |-> SubSeq(line, 5, p1 - 1),
              g2 |-> SubSeq(line, p1 + c1, p2 - 1),
              g3 |-> SubSeq(line, p2 + 2, p3 - 1),
              g4 |-> SubSeq(line, p3 + c3, p4 - 1)]
        ELSE [matched |-> FALSE, g1 |-> <<>>, g2 |-> <<>>, g3 |-> <<>>, g4 |-> <<>>]

\* `hunkHeaderMatch[2] ? parseInt(hunkHeaderMatch[2], 10) : 1`
CountOrDefault_Zero(group) ==
    IF group # <<>> THEN ParseInt(group) ELSE 0

CountOrDefault_ZeroIsOne(group) ==
    IF group # <<>> /\ ParseInt(group) # 0 THEN ParseInt(group) ELSE 1

CountOrDefault(group) ==
    IF group # <<>> THEN ParseInt(group) ELSE 1

\* The hunk a header opens.
NewHunk(m) ==
    [oldStart |-> ParseInt(m.g1),
     oldCount |-> CountOrDefault(m.g2),
     newStart |-> ParseInt(m.g3),
     newCount |-> CountOrDefault(m.g4),
     lines    |-> <<>>]

\* currentHunk = null
NoHunk == [oldStart |-> 0, oldCount |-> 0, newStart |-> 0, newCount |-> 0,
           lines |-> <<>>]

\* line.startsWith(c)
StartsWith(line, c) == Len(line) >= 1 /\ line[1] = c

\* line.substring(1)
Substring1(line) == SubSeq(line, 2, Len(line))

\* The record a body line gives within an open hunk, if any.
BodyRecords_KeepPrefix(line) ==
    IF StartsWith(line, "+")
    THEN <<[type |-> "added", content |-> line]>>
    ELSE IF StartsWith(line, "-")
    THEN <<[type |-> "removed", content |-> line]>>
    ELSE IF StartsWith(line, " ")
    THEN <<[type |-> "unchanged", content |-> line]>>
    ELSE <<>>

BodyRecords(line) ==
    IF StartsWith(line, "+")
    THEN <<[type |-> "added", content |-> Substring1(line)]>>
    ELSE IF StartsWith(line, "-")
    THEN <<[type |-> "removed", content |-> Substring1(line)]>>
    ELSE IF StartsWith(line, " ")
    THEN <<[type |-> "unchanged", content |-> Substring1(line)]>>
    ELSE <<>>

\* One iteration of `for (let i = 0; i < lines.length; i++)`.
\* ps = [hunks, open, currentHunk]; open = (currentHunk !== null).
ParseLine_DropOpen(ps, line) ==
    LET m == HunkHeaderMatch(line)
    IN  IF m.matched
        THEN [hunks |-> ps.hunks, open |-> TRUE, currentHunk |-> NewHunk(m)]
        ELSE IF ~ps.open THEN ps
        ELSE [ps EXCEPT !.currentHunk.lines = @ \o BodyRecords(line)]

ParseLine_PreambleOpens(ps, line) ==
    LET m == HunkHeaderMatch(line)
    IN  IF m.matched
        THEN [hunks |-> IF ps.open THEN Append(ps.hunks, ps.currentHunk)
                        ELSE ps.hunks,
              open |-> TRUE,
              currentHunk |-> NewHunk(m)]
        ELSE [ps EXCEPT !.open = @ \/ BodyRecords(line) # <<>>,
                        !.currentHunk.lines = @ \o BodyRecords(line)]

ParseLine_Prepend(ps, line) ==
    LET m == HunkHeaderMatch(line)
    IN  IF m.matched
        THEN [hunks |-> IF ps.open THEN <<ps.currentHunk>> \o ps.hunks
                        ELSE ps.hunks,
              open |-> TRUE,
              currentHunk |-> NewHunk(m)]
        ELSE IF ~ps.open THEN ps
        ELSE [ps EXCEPT !.currentHunk.lines = @ \o BodyRecords(line)]

ParseLine_NearHeaderCloses(ps, line) ==
    LET m == HunkHeaderMatch(line)
    IN  IF m.matched
        THEN [hunks |-> IF ps.open THEN Append(ps.hunks, ps.currentHunk)
                        ELSE ps.hunks,
              open |-> TRUE,
              currentHunk |-> NewHunk(m)]
        ELSE IF ~ps.open THEN ps
        ELSE IF StartsWith(line, "@")
        THEN [hunks |-> Append(ps.hunks, ps.currentHunk), open |-> FALSE,
              currentHunk |-> NoHunk]
        ELSE [ps EXCEPT !.currentHunk.lines = @ \o BodyRecords(line)]

ParseLine(ps, line) ==
    LET m == HunkHeaderMatch(line)
    IN  IF m.matched
        THEN [hunks |-> IF ps.open THEN Append(ps.hunks, ps.currentHunk)
                        ELSE ps.hunks,
              open |-> TRUE,
              currentHunk |-> NewHunk(m)]
        ELSE IF ~ps.open THEN ps
        ELSE [ps EXCEPT !.currentHunk.lines = @ \o BodyRecords(line)]

RECURSIVE ParseLines(_, _)
ParseLines(ps, lines) ==
    IF lines = <<>> THEN ps
    ELSE ParseLines(ParseLine(ps, Head(lines)), Tail(lines))

\* parseGitDiff(diffOutput).hunks
parseGitDiff_InitialHunk(text) ==
    LET ps == ParseLines([hunks |-> <<>>, open |-> TRUE, currentHunk |-> NoHunk],
                         SplitLines(text, 1, <<>>))
    IN  IF ps.open THEN Append(ps.hunks, ps.currentHunk) ELSE ps.hunks

parseGitDiff(text) ==
    IF text = <<>> THEN <<>>
    ELSE LET ps == ParseLines([hunks |-> <<>>, open |-> FALSE,
                               currentHunk |-> NoHunk],
                              SplitLines(text, 1, <<>>))
         IN  IF ps.open THEN Append(ps.hunks, ps.currentHunk) ELSE ps.hunks

(***************************************************************************)
(* The parseGitDiff of extension.ts (the earlier version of the parser).   *)
(***************************************************************************)
\* The pattern /@@ -(\d+),(\d+) \+(\d+),(\d+) @@/ tried at position p.
extension_HeaderMatchAt(line, p) ==
    LET d1 == DigitRun(line, p + 4)
        p1 == p + 4 + d1
        d2 == DigitRun(line, p1 + 1)
        p2 == p1 + 1 + d2
        d3 == DigitRun(line, p2 + 2)
        p3 == p2 + 2 + d3
        d4 == DigitRun(line, p3 + 1)
        p4 == p3 + 1 + d4
        ok == /\ CharAt(line, p, "@") /\ CharAt(line, p + 1, "@")
              /\ CharAt(line, p + 2, " ") /\ CharAt(line, p + 3, "-")
              /\ d1 >= 1 /\ CharAt(line, p1, ",") /\ d2 >= 1
              /\ CharAt(line, p2, " ") /\ CharAt(line, p2 + 1, "+")
              /\ d3 >= 1 /\ CharAt(line, p3, ",") /\ d4 >= 1
              /\ CharAt(line, p4, " ")
              /\ CharAt(line, p4 + 1, "@") /\ CharAt(line, p4 + 2, "@")
    IN  IF ok
        THEN [matched |-> TRUE,
              g1 |-> SubSeq(line, p + 4, p1 - 1),
              g2 |-> SubSeq(line, p1 + 1, p2 - 1),
              g3 |-> SubSeq(line, p2 + 2, p3 - 1),
              g4 |-> SubSeq(line, p3 + 1, p4 - 1)]
        ELSE [matched |-> FALSE, g1 |-> <<>>, g2 |-> <<>>, g3 |-> <<>>, g4 |-> <<>>]

\* line.match(...) of the unanchored pattern: the leftmost match.
extension_HeaderMatch(line) ==
    LET starts == { p \in 1..Len(line) : extension_HeaderMatchAt(line, p).matched }
    IN  IF starts = {}
        THEN [matched |-> FALSE, g1 |-> <<>>, g2 |-> <<>>, g3 |-> <<>>, g4 |-> <<>>]
        ELSE extension_HeaderMatchAt(
                 line, CHOOSE p \in starts : \A q \in starts : p <= q)

\* The hunk a header opens: all four numbers are in the header.
extension_NewHunk(m) ==
    [oldStart |-> ParseInt(m.g1),
     oldCount |-> ParseInt(m.g2),
     newStart |-> ParseInt(m.g3),
     newCount |-> ParseInt(m.g4),
     lines    |-> <<>>]

\* One iteration of `for (const line of lines)`.
extension_ParseLine(ps, line) ==
    IF CharAt(line, 1, "@") /\ CharAt(line, 2, "@")
    THEN LET m == extension_HeaderMatch(line)
         IN  IF m.matched
             THEN [hunks |-> IF ps.open THEN Append(ps.hunks, ps.currentHunk)
                             ELSE ps.hunks,
                   open |-> TRUE,
                   currentHunk |-> extension_NewHunk(m)]
             ELSE ps
    ELSE IF ~ps.open THEN ps
    ELSE [ps EXCEPT !.currentHunk.lines = @ \o BodyRecords(line)]

RECURSIVE extension_ParseLines(_, _)
extension_ParseLines(ps, lines) ==
    IF lines = <<>> THEN ps
    ELSE extension_ParseLines(extension_ParseLine(ps, Head(lines)), Tail(lines))

\* parseGitDiff(diffOutput).hunks of extension.ts
extension_parseGitDiff(text) ==
    LET ps == extension_ParseLines([hunks |-> <<>>, open |-> FALSE,
                                    currentHunk |-> NoHunk],
                                   SplitLines(text, 1, <<>>))
    IN  IF ps.open THEN Append(ps.hunks, ps.currentHunk) ELSE ps.hunks

(***************************************************************************)
(* The editor document and vscode ranges.                                  *)
(***************************************************************************)
\* new vscode.Range(startLine, startCharacter, endLine, endCharacter)
Range(sl, sc, el, ec) == [sl |-> sl, sc |-> sc, el |-> el, ec |-> ec]

lineCount(doc) == Len(doc)

\* document.lineAt(k) raises for k outside [0, lineCount).
LineAtThrows(doc, k) == k < 0 \/ k >= lineCount(doc)

\* document.lineAt(k).text and .range (the whole line, without line break).
LineText(doc, k) == doc[k + 1]
LineRange(doc, k) == Range(k, 0, k, Len(doc[k + 1]))

(***************************************************************************)
(* Template literal `- ${firstDeletedLineNumber}: ${lineInfo.content}`.    *)
(***************************************************************************)
DigitChar(d) == <<"0", "1", "2", "3", "4", "5", "6", "7", "8", "9">>[d + 1]

\* Number-to-string conversion of a non-negative integer.
RECURSIVE ToDecimal(_)
ToDecimal(n) ==
    IF n < 10 THEN <<DigitChar(n)>>
    ELSE ToDecimal(n \div 10) \o <<DigitChar(n % 10)>>

FormatDeletedLine(n, content) ==
    <<"-", " ">> \o ToDecimal(n) \o <<":", " ">> \o content

(***************************************************************************)
(* DiffDecorationProvider.calculateDecorations.                            *)
(***************************************************************************)
\* One iteration of `for (const change of charChanges)`.
\* w = [col, addedTexts, markers]; col is currentCharacterIndex.
CharStep_MarkerAdvances(w, change, editorLineIndex) ==
    LET changeLength == Len(change.value)
    IN  IF change.added
        THEN [w EXCEPT
                !.addedTexts = Append(@, [range |-> Range(editorLineIndex, w.col,
                                                          editorLineIndex,
                                                          w.col + changeLength)]),
                !.col = @ + changeLength]
        ELSE IF change.removed
        THEN [w EXCEPT
                !.markers = Append(@, [range |-> Range(editorLineIndex, w.col,
                                                       editorLineIndex, w.col),
                                       contentText |-> change.value]),
                !.col = @ + changeLength]
        ELSE [w EXCEPT !.col = @ + changeLength]

CharStep_EqualStays(w, change, editorLineIndex) ==
    LET changeLength == Len(change.value)
    IN  IF change.added
        THEN [w EXCEPT
                !.addedTexts = Append(@, [range |-> Range(editorLineIndex, w.col,
                                                          editorLineIndex,
                                                          w.col + changeLength)]),
                !.col = @ + changeLength]
        ELSE IF change.removed
        THEN [w EXCEPT
                !.markers = Append(@, [range |-> Range(editorLineIndex, w.col,
                                                       editorLineIndex, w.col),
                                       contentText |-> change.value])]
        ELSE w

CharStep(w, change, editorLineIndex) ==
    LET changeLength == Len(change.value)
    IN  IF change.added
        THEN [w EXCEPT
                !.addedTexts = Append(@, [range |-> Range(editorLineIndex, w.col,
                                                          editorLineIndex,
                                                          w.col + changeLength)]),
                !.col = @ + changeLength]
        ELSE IF change.removed
        THEN [w EXCEPT
                !.markers = Append(@, [range |-> Range(editorLineIndex, w.col,
                                                       editorLineIndex, w.col),
                                       contentText |-> change.value])]
        ELSE [w EXCEPT !.col = @ + changeLength]

RECURSIVE CharWalk(_, _, _)
CharWalk(w, charChanges, editorLineIndex) ==
    IF charChanges = <<>> THEN w
    ELSE CharWalk(CharStep(w, Head(charChanges), editorLineIndex),
                  Tail(charChanges), editorLineIndex)

\* `i > 0 && hunk.lines[i - 1].type === 'removed'` for record i (1-based).
PrecededByRemoved_AcrossAdded(hunk, i) ==
    \E j \in 1..(i - 1) :
        /\ hunk.lines[j].type = "removed"
        /\ \A k \in (j + 1)..(i - 1) : hunk.lines[k].type = "added"

PrecededByRemoved(hunk, i) ==
    i > 1 /\ hunk.lines[i - 1].type = "removed"

\* The branch `lineInfo.type === 'added'` for record i (1-based) of hunk.
AddedRecord_ContentWidth(st, hunk, i, doc) ==
    LET e == st.editorLineIndex
    IN  IF e < lineCount(doc)
        THEN IF LineAtThrows(doc, e)
             THEN [st EXCEPT !.threw = TRUE]
             ELSE LET lineRange == Range(e, 0, e, 0)
                  IN  IF PrecededByRemoved(hunk, i)
                      THEN \* --- Modification ---
                           LET charChanges == diffStrings(hunk.lines[i - 1].content,
                                                          hunk.lines[i].content)
                               w == CharWalk([col |-> 0,
                                              addedTexts |-> st.addedTexts,
                                              markers |-> st.deletedCharacterMarkers],
                                             charChanges, e)
                           IN  [st EXCEPT
                                  !.addedTexts = w.addedTexts,
                                  !.deletedCharacterMarkers = w.markers,
                                  !.modifiedLines = Append(@, [range |-> lineRange]),
                                  !.editorLineIndex = e + 1]
                      ELSE \* --- Pure addition ---
                           [st EXCEPT
                              !.addedLines = Append(@, [range |-> lineRange]),
                              !.addedTexts =
                                  IF Len(hunk.lines[i].content) > 0
                                  THEN Append(@, [range |-> Range(e, 0, e,
                                                      Len(hunk.lines[i].content))])
                                  ELSE @,
                              !.editorLineIndex = e + 1]
        ELSE [st EXCEPT !.editorLineIndex = e + 1]

AddedRecord(st, hunk, i, doc) ==
    LET e == st.editorLineIndex
    IN  IF e < lineCount(doc)
        THEN IF LineAtThrows(doc, e)
             THEN [st EXCEPT !.threw = TRUE]
             ELSE LET lineRange == Range(e, 0, e, 0)
                  IN  IF PrecededByRemoved(hunk, i)
                      THEN \* --- Modification ---
                           LET charChanges == diffStrings(hunk.lines[i - 1].content,
                                                          hunk.lines[i].content)
                               w == CharWalk([col |-> 0,
                                              addedTexts |-> st.addedTexts,
                                              markers |-> st.deletedCharacterMarkers],
                                             charChanges, e)
                           IN  [st EXCEPT
                                  !.addedTexts = w.addedTexts,
                                  !.deletedCharacterMarkers = w.markers,
                                  !.modifiedLines = Append(@, [range |-> lineRange]),
                                  !.editorLineIndex = e + 1]
                      ELSE \* --- Pure addition ---
                           [st EXCEPT
                              !.addedLines = Append(@, [range |-> lineRange]),
                              !.addedTexts =
                                  IF Len(LineText(doc, e)) > 0
                                  THEN Append(@, [range |-> Range(e, 0, e,
                                                      Len(LineText(doc, e)))])
                                  ELSE @,
                              !.editorLineIndex = e + 1]
        ELSE [st EXCEPT !.editorLineIndex = e + 1]

\* `i + 1 < hunk.lines.length && hunk.lines[i + 1].type === 'added'`.
isModification_Never(hunk, i) == FALSE

isModification(hunk, i) ==
    i + 1 <= Len(hunk.lines) /\ hunk.lines[i + 1].type = "added"

\* The editor line a pure deletion's ghost is attached to, or NoLine when
\* the ghost is dropped (the if/else ladder on precedingEditorLineIndex).
NoLine == -1

GhostLine_NoFallback(precedingEditorLineIndex, doc) ==
    IF precedingEditorLineIndex >= 0
       /\ precedingEditorLineIndex < lineCount(doc)
    THEN precedingEditorLineIndex
    ELSE NoLine

GhostLine_Clamp(precedingEditorLineIndex, doc) ==
    IF precedingEditorLineIndex >= 0
    THEN IF precedingEditorLineIndex < lineCount(doc)
         THEN precedingEditorLineIndex
         ELSE lineCount(doc) - 1
    ELSE IF lineCount(doc) > 0 THEN 0 ELSE NoLine

GhostLine(precedingEditorLineIndex, doc) ==
    IF precedingEditorLineIndex >= 0
    THEN IF precedingEditorLineIndex < lineCount(doc)
         THEN precedingEditorLineIndex
         ELSE NoLine
    ELSE IF lineCount(doc) > 0 THEN 0 ELSE NoLine

\* The branch `lineInfo.type === 'removed'` for record i (1-based) of hunk.
RemovedRecord(st, hunk, i, doc) ==
    LET precedingEditorLineIndex == st.editorLineIndex - 1
        firstDeletedLineNumber == hunk.oldStart + st.oldLineIndexInHunk
        formattedLine == FormatDeletedLine(firstDeletedLineNumber,
                                           hunk.lines[i].content)
        target == GhostLine(precedingEditorLineIndex, doc)
    IN  [st EXCEPT
           !.inlineDeletedLineOptions =
               IF ~isModification(hunk, i) /\ target # NoLine
               THEN Append(@, [range |-> LineRange(doc, target),
                               contentText |-> formattedLine])
               ELSE @,
           !.oldLineIndexInHunk = @ + 1]

\* The branch `lineInfo.type === 'unchanged'`.
UnchangedRecord_NoOldAdvance(st) ==
    [st EXCEPT !.editorLineIndex = @ + 1]

UnchangedRecord(st) ==
    [st EXCEPT !.editorLineIndex = @ + 1, !.oldLineIndexInHunk = @ + 1]

\* The body of `for (let i = 0; i < hunk.lines.length; i++)`.
ProcessRecord(st, hunk, i, doc) ==
    IF hunk.lines[i].type = "added" THEN AddedRecord(st, hunk, i, doc)
    ELSE IF hunk.lines[i].type = "removed" THEN RemovedRecord(st, hunk, i, doc)
    ELSE IF hunk.lines[i].type = "unchanged" THEN UnchangedRecord(st)
    ELSE st

\* Records i..last of the hunk, stopping when an exception was raised.
RECURSIVE ProcessRecords(_, _, _, _, _)
ProcessRecords(st, hunk, i, last, doc) ==
    IF st.threw \/ i > last THEN st
    ELSE ProcessRecords(ProcessRecord(st, hunk, i, doc), hunk, i + 1, last, doc)

\* The cursors at the top of `for (const hunk of parsedDiff.hunks)`.
EnterHunk_KeepOld(st, hunk) ==
    [st EXCEPT !.editorLineIndex = hunk.newStart - 1]

EnterHunk_KeepEditorLine(st, hunk) ==
    [st EXCEPT !.oldLineIndexInHunk = 0]

EnterHunk(st, hunk) ==
    [st EXCEPT !.editorLineIndex = hunk.newStart - 1,
               !.oldLineIndexInHunk = 0]

RECURSIVE ProcessHunks(_, _, _)
ProcessHunks(st, hunks, doc) ==
    IF st.threw \/ hunks = <<>> THEN st
    ELSE ProcessHunks(
             ProcessRecords(EnterHunk(st, Head(hunks)), Head(hunks), 1,
                            Len(Head(hunks).lines), doc),
             Tail(hunks), doc)

EmptyDecorations ==
    [editorLineIndex |-> 0, oldLineIndexInHunk |-> 0,
     addedLines |-> <<>>, modifiedLines |-> <<>>, addedTexts |-> <<>>,
     deletedCharacterMarkers |-> <<>>, inlineDeletedLineOptions |-> <<>>,
     threw |-> FALSE]

\* The value returned by calculateDecorations, or threw = TRUE when
\* document.lineAt raised (nothing is returned then).
Returned(st) ==
        IF st.threw
        THEN [threw |-> TRUE,
              decorationOptions |-> [addedLines |-> <<>>, modifiedLines |-> <<>>,
                                     addedTexts |-> <<>>,
                                     deletedCharacterMarkers |-> <<>>],
              inlineDeletedLineOptions |-> <<>>]
        ELSE [threw |-> FALSE,
              decorationOptions |->
                  [addedLines |-> st.addedLines,
                   modifiedLines |-> st.modifiedLines,
                   addedTexts |-> st.addedTexts,
                   deletedCharacterMarkers |-> st.deletedCharacterMarkers],
              inlineDeletedLineOptions |-> st.inlineDeletedLineOptions]

calculateDecorations(hunks, doc) ==
    Returned(ProcessHunks(EmptyDecorations, hunks, doc))

(***************************************************************************)
(* DecorationManager (decorationManager.ts) and the maps of extension.ts.  *)
(*                                                                         *)
(* deco.shown[ed][t]     the run whose options managed type t shows on     *)
(*                       editor ed (0: the empty list)                     *)
(* deco.tracked[ed]      activeEditorDecorations.get(ed): has = FALSE for  *)
(*                       no entry, else the types listed                   *)
(* deco.ghosts[ed]       the deleted-line decoration types created for ed  *)
(*                       and not disposed, <<run, k>> the k-th of a run    *)
(* deco.deleted[ed]      activeDeletedLineDecorations.get(ed)              *)
(* deco.disposed         the four managed types have been disposed         *)
(***************************************************************************)
Editors == {"e1", "e2"}
NoEditor == "none"

ManagedTypes == {"addedLines", "modifiedLines", "addedTexts",
                 "deletedCharacterMarkers"}

NoEntry == [has |-> FALSE, types |-> {}]
NoGhostEntry == [has |-> FALSE, ids |-> {}]

NoDecorations ==
    [shown   |-> [ed \in Editors |-> [t \in ManagedTypes |-> 0]],
     tracked |-> [ed \in Editors |-> NoEntry],
     ghosts  |-> [ed \in Editors |-> {}],
     deleted |-> [ed \in Editors |-> NoGhostEntry],
     disposed |-> FALSE]

\* DecorationManager.clearDecorations(editor)
ManagerClear(d, ed) ==
    IF d.tracked[ed].has
    THEN [d EXCEPT !.shown[ed] = [t \in ManagedTypes |->
                                     IF t \in d.tracked[ed].types THEN 0 ELSE @[t]],
                   !.tracked[ed] = NoEntry]
    ELSE [d EXCEPT !.shown[ed] = [t \in ManagedTypes |-> 0]]

\* DecorationManager.applyDecorations(editor, optionsMap): cats are the
\* categories of optionsMap that are not empty, run the run they come from.
\* setDecorations with a disposed type shows nothing; the type is listed
\* all the same.
ManagerApply(d, ed, cats, run) ==
    LET c == ManagerClear(d, ed)
    IN  [c EXCEPT !.shown[ed] = [t \in ManagedTypes |->
                                    IF t \in cats /\ ~d.disposed THEN run ELSE 0],
                  !.tracked[ed] = [has |-> TRUE, types |-> cats]]

\* DecorationManager.clearAllDecorations()
RECURSIVE ManagerClearEach(_, _)
ManagerClearEach(d, eds) ==
    IF eds = {} THEN d
    ELSE LET ed == CHOOSE x \in eds : TRUE
         IN  ManagerClearEach(ManagerClear(d, ed), eds \ {ed})

ManagerClearAll_MapOnly(d) ==
    [d EXCEPT !.tracked = [ed \in Editors |-> NoEntry]]

ManagerClearAll(d) ==
    LET c == ManagerClearEach(d, { ed \in Editors : d.tracked[ed].has })
    IN  [c EXCEPT !.tracked = [ed \in Editors |-> NoEntry]]

\* DecorationManager.dispose(): the four types are disposed, which takes
\* them off every editor, and the map is emptied.
ManagerDispose(d) ==
    [d EXCEPT !.shown    = [ed \in Editors |-> [t \in ManagedTypes |-> 0]],
              !.tracked  = [ed \in Editors |-> NoEntry],
              !.disposed = TRUE]

\* clearDeletedDecorationsForEditor(editor)
clearDeletedDecorationsForEditor(d, ed) ==
    IF d.deleted[ed].has
    THEN [d EXCEPT !.ghosts = [e \in Editors |-> @[e] \ d.deleted[ed].ids],
                   !.deleted[ed] = NoGhostEntry]
    ELSE d

\* clearAllDeletedLineDecorations()
clearAllDeletedLineDecorations(d) ==
    LET listed == UNION { d.deleted[ed].ids : ed \in Editors }
    IN  [d EXCEPT !.ghosts = [e \in Editors |-> @[e] \ listed],
                  !.deleted = [e \in Editors |-> NoGhostEntry]]

\* clearDecorationsForEditor(editor)
clearDecorationsForEditor(d, ed) ==
    clearDeletedDecorationsForEditor(ManagerClear(d, ed), ed)

\* clearAllEditorDecorations()
clearAllEditorDecorations(d) ==
    clearAllDeletedLineDecorations(ManagerClearAll(d))

(***************************************************************************)
(* What a run of showDiffForEditor can bring back from its collaborators.  *)
(***************************************************************************)
\* gitService.getFileStatus: null, not modified, modified, or a rejection.
StatusOutcomes == {"null", "notModified", "modified", "throws"}

\* What the rest of a run comes to once getDiff has returned: "none" for
\* the early returns (no diff text, no hunk), "throws" for an exception in
\* steps 2 to 6, "bundle" for a calculated bundle, of which only the shape
\* matters here: its non-empty categories and the number of inline
\* deleted-line options.
DiffOutcome(kind, cats, ghosts) == [kind |-> kind, cats |-> cats, ghosts |-> ghosts]

DiffOutcomes ==
    { DiffOutcome("none", {}, 0),
      DiffOutcome("throws", {}, 0),
      DiffOutcome("bundle", {"addedLines", "addedTexts"}, 0),
      DiffOutcome("bundle", {"modifiedLines", "addedTexts",
                             "deletedCharacterMarkers"}, 1),
      DiffOutcome("bundle", {}, 2) }

\* Steps 5 and 6 of showDiffForEditor for a bundle of the given shape.
ApplyBundle(d, ed, run, shape) ==
    LET m == ManagerApply(d, ed, shape.cats, run)
        created == { <<run, k>> : k \in 1..shape.ghosts }
    IN  [m EXCEPT !.ghosts[ed] = @ \cup created,
                  !.deleted[ed] = IF created # {}
                                  THEN [has |-> TRUE, ids |-> created]
                                  ELSE @]

\* An event as lastEvent records it; outcome is what a collaborator
\* returned to a run ("" for the events that are no return).
EventOf(kind, ed, outcome) == [kind |-> kind, editor |-> ed, outcome |-> outcome]

Event(kind, ed) == EventOf(kind, ed, "")

\* The synchronous head of showDiffForEditor(editor), up to its first
\* await; toggle tells whether the toggle command awaits this run, and
\* alone records that no other run has been in flight since this one began.
StartRun(ed, toggle) ==
    /\ nextRun <= MaxRuns
    /\ deco' = clearDecorationsForEditor(deco, ed)
    /\ runs' = { [r EXCEPT !.alone = FALSE] : r \in runs }
                \cup { [id |-> nextRun, editor |-> ed, stage |-> "status",
                        toggle |-> toggle, alone |-> runs = {}] }
    /\ nextRun' = nextRun + 1

\* The run returns.  A toggle command that awaits it is resumed by a later
\* job of the promise queue, not in this step.
FinishRun(r) ==
    /\ runs' = runs \ {r}
    /\ resuming' = IF r.toggle THEN resuming + 1 ELSE resuming

\* Handlers of host events and timer callbacks start only once the promise
\* queue is empty: no toggle command is waiting to resume.
HostTurn == resuming = 0

\* The subscriptions of activate are still registered (deactivation
\* disposes them all, the command and the event handlers among them).
Activated == ~deco.disposed

(***************************************************************************)
(* Inputs of the projector: what parseGitDiff can return, and a document.  *)
(***************************************************************************)
RemovedContents == { <<"a", "b">>, <<"b", "a">> }
AddedContents == { <<"a", "b">> }
UnchangedContent == <<"u">>
LiveTexts == { <<>>, <<"a", "b">> }

\* Lines that earlier hunks removed from the old file: oldStart - newStart.
OldShift == 8

LineRecords ==
    [type : {"removed"}, content : RemovedContents]
    \cup [type : {"added"}, content : AddedContents]
    \cup { [type |-> "unchanged", content |-> UnchangedContent] }

Count(lines, types) == Cardinality({ k \in 1..Len(lines) : lines[k].type \in types })

\* A hunk as the parser builds it from a header whose counts fit the body.
HunkOf(oldStart, newStart, lines) ==
    [oldStart |-> oldStart,
     oldCount |-> Count(lines, {"removed", "unchanged"}),
     newStart |-> newStart,
     newCount |-> Count(lines, {"added", "unchanged"}),
     lines |-> lines]

\* git numbers new-file lines from 1: a header has newStart = 0 only when
\* the hunk holds no line of the new file (newCount = 0).
GitHunk(h) == h.newStart = 0 => h.newCount = 0

ProjectorHunks ==
    { h \in { HunkOf(ns + OldShift, ns, ls) :
                  ns \in 0..MaxNewStart, ls \in SeqsUpTo(LineRecords, MaxRecs) } :
        GitHunk(h) }

Documents == SeqsUpTo(LiveTexts, MaxLines)

\* No call of diffStrings has been made.
DifferIdle ==
    /\ oldStr = <<>>
    /\ newStr = <<>>
    /\ charSegments = <<>>
    /\ changes = <<>>

\* The module state of extension.ts right after activate().
ExtensionIdle ==
    /\ inlineDiffDecorationEnabled = FALSE
    /\ updateTimeout = 0
    /\ timers = {}
    /\ nextTimer = 1
    /\ runs = {}
    /\ resuming = 0
    /\ nextRun = 1
    /\ deco = NoDecorations
    /\ lastEvent = Event("activate", NoEditor)
    /\ lastEdit = 0
    /\ activeEditor = NoEditor

Init ==
    /\ pc = "input"
    /\ parsedDiff \in { <<h>> : h \in ProjectorHunks }
    /\ document \in Documents
    /\ result = NoVal
    /\ walk = NoWalk
    /\ diffOutput = <<>>
    /\ parseResult = <<>>
    /\ extParseResult = <<>>
    /\ ExtensionIdle
    /\ DifferIdle

\* showDiffForEditor step 4: calculateDecorations(parsedDiff, editor).
Calculate ==
    /\ pc = "input"
    /\ result' = calculateDecorations(parsedDiff, document)
    /\ pc' = "done"
    /\ UNCHANGED <<parsedDiff, document, walk>>
    /\ UNCHANGED parseVars
    /\ UNCHANGED extVars
    /\ UNCHANGED diffVars

Next == Calculate

Spec == Init /\ [][Next]_vars

(***************************************************************************)
(* calculateDecorations one loop iteration at a time, on two hunks.        *)
(*                                                                         *)
(* walk.st is the set of locals (the five lists and the two cursors),      *)
(* walk.k the hunk the outer loop stands at (0 before the first) and       *)
(* walk.i the record the inner loop processes next.                        *)
(***************************************************************************)
\* The bodies of the second hunk of a pair.
SecondHunkLines ==
    { <<[type |-> "added", content |-> <<"a", "b">>]>>,
      <<[type |-> "removed", content |-> <<"b", "a">>]>>,
      <<[type |-> "removed", content |-> <<"b", "a">>],
        [type |-> "added", content |-> <<"a", "b">>]>>,
      <<[type |-> "unchanged", content |-> UnchangedContent],
        [type |-> "added", content |-> <<"a", "b">>]>> }

\* Unchanged lines between the two hunks of a pair.
HunkGaps == {0, 1}

FirstHunks ==
    { h \in { HunkOf(ns + OldShift, ns, ls) :
                  ns \in 0..MaxNewStart, ls \in SeqsUpTo(LineRecords, MaxFirstRecs) } :
        GitHunk(h) }

\* The hunk that follows h in the same diff, gap unchanged lines later.
HunkAfter(h, gap, ls) ==
    HunkOf(h.oldStart + h.oldCount + gap, h.newStart + h.newCount + gap, ls)

\* Two hunks of one diff: in file order, on disjoint lines.
HunkPairs ==
    { hs \in { <<h, HunkAfter(h, gap, ls)>> :
                   h \in FirstHunks, gap \in HunkGaps, ls \in SecondHunkLines } :
        GitHunk(hs[2]) }

\* The locals of calculateDecorations before its outer loop.
StartOfWalk == [st |-> EmptyDecorations, k |-> 0, i |-> 1]

\* The inner loop has run through the records of the hunk it stands at.
HunkExhausted ==
    IF walk.k = 0 THEN TRUE ELSE walk.i > Len(parsedDiff[walk.k].lines)

InitHunks ==
    /\ pc = "walking"
    /\ parsedDiff \in HunkPairs
    /\ document \in Documents
    /\ result = NoVal
    /\ walk = StartOfWalk
    /\ diffOutput = <<>>
    /\ parseResult = <<>>
    /\ extParseResult = <<>>
    /\ ExtensionIdle
    /\ DifferIdle

\* The outer loop takes the next hunk and sets the two cursors.
NextHunk_NoReset ==
    /\ pc = "walking"
    /\ HunkExhausted
    /\ walk.k < Len(parsedDiff)
    /\ walk' = [st |-> walk.st, k |-> walk.k + 1, i |-> 1]
    /\ UNCHANGED <<pc, parsedDiff, document, result>>
    /\ UNCHANGED parseVars
    /\ UNCHANGED extVars
    /\ UNCHANGED diffVars

NextHunk ==
    /\ pc = "walking"
    /\ HunkExhausted
    /\ walk.k < Len(parsedDiff)
    /\ walk' = [st |-> EnterHunk(walk.st, parsedDiff[walk.k + 1]),
                k |-> walk.k + 1, i |-> 1]
    /\ UNCHANGED <<pc, parsedDiff, document, result>>
    /\ UNCHANGED parseVars
    /\ UNCHANGED extVars
    /\ UNCHANGED diffVars

\* One iteration of the inner loop; an exception of document.lineAt ends
\* the call.
NextRecord ==
    /\ pc = "walking"
    /\ ~HunkExhausted
    /\ LET st == ProcessRecord(walk.st, parsedDiff[walk.k], walk.i, document)
       IN  /\ walk' = [walk EXCEPT !.st = st, !.i = @ + 1]
           /\ pc' = IF st.threw THEN "done" ELSE pc
           /\ result' = IF st.threw THEN Returned(st) ELSE result
    /\ UNCHANGED <<parsedDiff, document>>
    /\ UNCHANGED parseVars
    /\ UNCHANGED extVars
    /\ UNCHANGED diffVars

\* Both loops are over: `return { decorationOptions, inlineDeletedLineOptions }`.
Return ==
    /\ pc = "walking"
    /\ HunkExhausted
    /\ walk.k = Len(parsedDiff)
    /\ result' = Returned(walk.st)
    /\ pc' = "done"
    /\ UNCHANGED <<parsedDiff, document, walk>>
    /\ UNCHANGED parseVars
    /\ UNCHANGED extVars
    /\ UNCHANGED diffVars

NextWalk == NextHunk \/ NextRecord \/ Return

SpecHunks == InitHunks /\ [][NextWalk]_vars

(***************************************************************************)
(* calculateDecorations on every hunk the parser can return: any header    *)
(* numbers the pattern accepts, whatever the body.                         *)
(***************************************************************************)
ParserHunks ==
    { HunkOf(ns + OldShift, ns, ls) :
          ns \in 0..MaxNewStart, ls \in SeqsUpTo(LineRecords, MaxFirstRecs) }

InitParsed ==
    /\ pc = "walking"
    /\ parsedDiff \in { <<h>> : h \in ParserHunks }
    /\ document \in Documents
    /\ result = NoVal
    /\ walk = StartOfWalk
    /\ diffOutput = <<>>
    /\ parseResult = <<>>
    /\ extParseResult = <<>>
    /\ ExtensionIdle
    /\ DifferIdle

SpecParsed == InitParsed /\ [][NextWalk]_vars

(***************************************************************************)
(* Inputs of the parser: diff texts made of header lines, near-headers and *)
(* body lines, joined by line feeds.                                       *)
(***************************************************************************)
AtAt == <<"@", "@">>

\* A header line; a count part is <<>> when the header omits the count.
HeaderText(oldStart, oldCountPart, newStart, newCountPart, trailer) ==
    AtAt \o <<" ", "-">> \o oldStart \o oldCountPart
         \o <<" ", "+">> \o newStart \o newCountPart \o <<" ">> \o AtAt \o trailer

\* The headers of the pool, with the numbers they state (a count of -1
\* stands for an omitted count).
HeaderPool ==
    { [text |-> HeaderText(<<"1">>, <<>>, <<"1">>, <<",", "2">>, <<>>),
       oldStart |-> 1, oldCount |-> -1, newStart |-> 1, newCount |-> 2],
      [text |-> HeaderText(<<"1", "0">>, <<",", "0">>, <<"2">>, <<>>, <<" ", "f">>),
       oldStart |-> 10, oldCount |-> 0, newStart |-> 2, newCount |-> -1] }

HeaderLines == { hd.text : hd \in HeaderPool }

\* A line that starts like a header and is none.
NearHeader == AtAt \o <<" ", "-", "x", " ", "+", "1", " ">> \o AtAt

BodyPool == { <<"+", "a">>, <<"-", "+">>, <<" ", "b">>, <<" ">>, <<>>, <<"\\">> }

DiffLinePool == HeaderLines \cup {NearHeader} \cup BodyPool

\* Array.prototype.join('\n') of the lines of a diff text.
RECURSIVE JoinLines(_)
JoinLines(lines) ==
    IF lines = <<>> THEN <<>>
    ELSE IF Len(lines) = 1 THEN lines[1]
    ELSE lines[1] \o <<NewLine>> \o JoinLines(Tail(lines))

DiffTexts == { JoinLines(ls) : ls \in SeqsUpTo(DiffLinePool, MaxDiffLines) }

InitParse ==
    /\ pc = "text"
    /\ diffOutput \in DiffTexts
    /\ parseResult = <<>>
    /\ extParseResult = <<>>
    /\ parsedDiff = <<>>
    /\ document = <<>>
    /\ result = NoVal
    /\ walk = NoWalk
    /\ ExtensionIdle
    /\ DifferIdle

\* showDiffForEditor step 3: parseGitDiff(diffOutput).
Parse ==
    /\ pc = "text"
    /\ parseResult' = parseGitDiff(diffOutput)
    /\ pc' = "parsed"
    /\ UNCHANGED <<diffOutput, extParseResult>>
    /\ UNCHANGED projVars
    /\ UNCHANGED extVars
    /\ UNCHANGED diffVars

NextParse == Parse

SpecParse == InitParse /\ [][NextParse]_vars

(***************************************************************************)
(* Inputs of the two parsers: texts whose lines are headers, lines that    *)
(* start like a header, and body lines.                                    *)
(***************************************************************************)
\* '@@ -1,1 +1,2 @@': a header for both parsers.
FullHeader == HeaderText(<<"1">>, <<",", "1">>, <<"1">>, <<",", "2">>, <<>>)

\* '@@ -1 +2 @@': a header for diffParser.ts only (the counts are missing).
ShortHeader == HeaderText(<<"1">>, <<>>, <<"2">>, <<>>, <<>>)

\* '@@@@ -3,1 +3,1 @@': a header for extension.ts only (the pattern is
\* found at the third character).
ShiftedHeader ==
    AtAt \o HeaderText(<<"3">>, <<",", "1">>, <<"3">>, <<",", "1">>, <<>>)

HeaderLikePool ==
    { FullHeader, ShortHeader, ShiftedHeader, NearHeader,
      <<"+", "a">>, <<"-", "+">>, <<" ", "b">> }

HeaderLikeTexts == { JoinLines(ls) : ls \in SeqsUpTo(HeaderLikePool, MaxHeaderLines) }

InitHeaders ==
    /\ pc = "lines"
    /\ diffOutput \in HeaderLikeTexts
    /\ parseResult = <<>>
    /\ extParseResult = <<>>
    /\ parsedDiff = <<>>
    /\ document = <<>>
    /\ result = NoVal
    /\ walk = NoWalk
    /\ ExtensionIdle
    /\ DifferIdle

\* One call of each parseGitDiff on the text.
ParseBoth ==
    /\ pc = "lines"
    /\ parseResult' = parseGitDiff(diffOutput)
    /\ extParseResult' = extension_parseGitDiff(diffOutput)
    /\ pc' = "read"
    /\ UNCHANGED diffOutput
    /\ UNCHANGED projVars
    /\ UNCHANGED extVars
    /\ UNCHANGED diffVars

NextHeaders == ParseBoth

SpecHeaders == InitHeaders /\ [][NextHeaders]_vars

(***************************************************************************)
(* Inputs of the differ: every pair of strings over two characters.        *)
(***************************************************************************)
DiffAlphabet == {"a", "b"}

DiffStringPool == SeqsUpTo(DiffAlphabet, MaxStrLen)

InitDiff ==
    /\ pc = "strings"
    /\ oldStr \in DiffStringPool
    /\ newStr \in DiffStringPool
    /\ charSegments = <<>>
    /\ changes = <<>>
    /\ parsedDiff = <<>>
    /\ document = <<>>
    /\ result = NoVal
    /\ walk = NoWalk
    /\ diffOutput = <<>>
    /\ parseResult = <<>>
    /\ extParseResult = <<>>
    /\ ExtensionIdle

\* One call of each diffStrings on the pair (oldStr, newStr).
DiffStrings ==
    /\ pc = "strings"
    /\ charSegments' = diffStrings(oldStr, newStr)
    /\ changes' = extension_diffStrings(oldStr, newStr)
    /\ pc' = "diffed"
    /\ UNCHANGED <<oldStr, newStr>>
    /\ UNCHANGED projVars
    /\ UNCHANGED parseVars
    /\ UNCHANGED extVars

NextDiff == DiffStrings

SpecDiff == InitDiff /\ [][NextDiff]_vars

(***************************************************************************)
(* calculateDecorations on one modified line: a removed record followed by *)
(* an added record, the document holding the new line.                     *)
(***************************************************************************)
ModifiedLine(old, new) ==
    HunkOf(1, 1, <<[type |-> "removed", content |-> old],
                   [type |-> "added", content |-> new]>>)

InitModification ==
    /\ pc = "walking"
    /\ \E old \in DiffStringPool, new \in DiffStringPool :
           /\ parsedDiff = <<ModifiedLine(old, new)>>
           /\ document = <<new>>
    /\ result = NoVal
    /\ walk = StartOfWalk
    /\ diffOutput = <<>>
    /\ parseResult = <<>>
    /\ extParseResult = <<>>
    /\ ExtensionIdle
    /\ DifferIdle

SpecModification == InitModification /\ [][NextWalk]_vars

(***************************************************************************)
(* The activated extension: its command, its event handlers, the debounce  *)
(* timer and the suspended runs of showDiffForEditor.                      *)
(***************************************************************************)
InitEvents ==
    /\ pc = "events"
    /\ inlineDiffDecorationEnabled = FALSE
    /\ updateTimeout = 0
    /\ timers = {}
    /\ nextTimer = 1
    /\ runs = {}
    /\ resuming = 0
    /\ nextRun = 1
    /\ deco = NoDecorations
    /\ lastEvent = Event("activate", NoEditor)
    /\ lastEdit = 0
    /\ activeEditor \in Editors \cup {NoEditor}
    /\ parsedDiff = <<>>
    /\ document = <<>>
    /\ result = NoVal
    /\ walk = NoWalk
    /\ diffOutput = <<>>
    /\ parseResult = <<>>
    /\ extParseResult = <<>>
    /\ DifferIdle

\* The toggle command without an active editor.
ToggleNoEditor ==
    /\ HostTurn /\ Activated
    /\ activeEditor = NoEditor
    /\ lastEvent' = Event("toggle", NoEditor)
    /\ UNCHANGED lastEdit
    /\ UNCHANGED <<inlineDiffDecorationEnabled, updateTimeout, timers, nextTimer,
                   activeEditor, runs, resuming, nextRun, deco>>
    /\ UNCHANGED callVars

\* The toggle command while the flag is set.
ToggleOff ==
    /\ HostTurn /\ Activated
    /\ activeEditor # NoEditor
    /\ inlineDiffDecorationEnabled
    /\ deco' = clearAllEditorDecorations(deco)
    /\ inlineDiffDecorationEnabled' = FALSE
    /\ lastEvent' = Event("toggle", activeEditor)
    /\ lastEdit' = 0
    /\ UNCHANGED <<updateTimeout, timers, nextTimer, activeEditor, runs, resuming,
                   nextRun>>
    /\ UNCHANGED callVars

\* The toggle command while the flag is clear: up to `await showDiffForEditor`.
ToggleOn ==
    /\ HostTurn /\ Activated
    /\ activeEditor # NoEditor
    /\ ~inlineDiffDecorationEnabled
    /\ StartRun(activeEditor, TRUE)
    /\ lastEvent' = Event("toggle", activeEditor)
    /\ UNCHANGED lastEdit
    /\ UNCHANGED <<inlineDiffDecorationEnabled, updateTimeout, timers, nextTimer,
                   activeEditor, resuming>>
    /\ UNCHANGED callVars

\* onDidChangeTextDocument for the document of editor ed.
DocumentChanged(ed) ==
    /\ HostTurn /\ Activated
    /\ lastEvent' = Event("documentChange", ed)
    /\ lastEdit' = IF inlineDiffDecorationEnabled /\ ed = activeEditor
                   THEN nextRun ELSE lastEdit
    /\ IF inlineDiffDecorationEnabled /\ activeEditor # NoEditor /\ ed = activeEditor
       THEN /\ nextTimer <= MaxTimers
            /\ timers' = { t \in timers : t.id # updateTimeout }
                         \cup { [id |-> nextTimer, editor |-> ed] }
            /\ updateTimeout' = nextTimer
            /\ nextTimer' = nextTimer + 1
       ELSE UNCHANGED <<timers, updateTimeout, nextTimer>>
    /\ UNCHANGED <<inlineDiffDecorationEnabled, activeEditor, runs, resuming,
                   nextRun, deco>>
    /\ UNCHANGED callVars

\* The callback of setTimeout(..., 500) for the pending timer t.
TimerFires(t) ==
    /\ HostTurn
    /\ t \in timers
    /\ timers' = timers \ {t}
    /\ StartRun(t.editor, FALSE)
    /\ lastEvent' = Event("timer", t.editor)
    /\ UNCHANGED lastEdit
    /\ UNCHANGED <<inlineDiffDecorationEnabled, updateTimeout, nextTimer,
                   activeEditor, resuming>>
    /\ UNCHANGED callVars

\* onDidChangeActiveTextEditor(editor); editor may be undefined (NoEditor).
ActiveEditorChanged_KeepsTimer(ed) ==
    /\ HostTurn /\ Activated
    /\ ed # activeEditor
    /\ activeEditor' = ed
    /\ lastEvent' = Event("activeEditor", ed)
    /\ lastEdit' = 0
    /\ IF inlineDiffDecorationEnabled /\ ed # NoEditor
       THEN /\ UNCHANGED <<timers, updateTimeout>>
            /\ StartRun(ed, FALSE)
       ELSE UNCHANGED <<timers, updateTimeout, runs, nextRun, deco>>
    /\ UNCHANGED <<inlineDiffDecorationEnabled, nextTimer, resuming>>
    /\ UNCHANGED callVars

ActiveEditorChanged(ed) ==
    /\ HostTurn /\ Activated
    /\ ed # activeEditor
    /\ activeEditor' = ed
    /\ lastEvent' = Event("activeEditor", ed)
    /\ lastEdit' = 0
    /\ IF inlineDiffDecorationEnabled /\ ed # NoEditor
       THEN /\ timers' = IF updateTimeout # 0
                         THEN { t \in timers : t.id # updateTimeout }
                         ELSE timers
            /\ updateTimeout' = 0
            /\ StartRun(ed, FALSE)
       ELSE UNCHANGED <<timers, updateTimeout, runs, nextRun, deco>>
    /\ UNCHANGED <<inlineDiffDecorationEnabled, nextTimer, resuming>>
    /\ UNCHANGED callVars

\* onDidCloseTextDocument for the document of editor ed; visible tells
\* whether visibleTextEditors still lists an editor showing it.
DocumentClosed(ed, visible) ==
    /\ HostTurn /\ Activated
    /\ deco' = IF visible THEN clearDecorationsForEditor(deco, ed) ELSE deco
    /\ lastEvent' = Event("close", ed)
    /\ UNCHANGED lastEdit
    /\ UNCHANGED <<inlineDiffDecorationEnabled, updateTimeout, timers, nextTimer,
                   activeEditor, runs, resuming, nextRun>>
    /\ UNCHANGED callVars

\* `await gitService.getFileStatus(filePath)` returns to run r.
StatusReturns(r, outcome) ==
    /\ r \in runs /\ r.stage = "status"
    /\ lastEvent' = EventOf("status", r.editor, outcome)
    /\ UNCHANGED lastEdit
    /\ IF outcome = "modified"
       THEN /\ runs' = (runs \ {r}) \cup {[r EXCEPT !.stage = "diff"]}
            /\ UNCHANGED <<deco, resuming>>
       ELSE /\ FinishRun(r)
            /\ deco' = IF outcome = "throws"
                       THEN clearDecorationsForEditor(deco, r.editor)
                       ELSE deco
    /\ UNCHANGED <<inlineDiffDecorationEnabled, updateTimeout, timers, nextTimer,
                   activeEditor, nextRun>>
    /\ UNCHANGED callVars

\* `await gitService.getDiff(filePath)` returns to run r, which then runs
\* steps 3 to 6 to its end.
DiffReturns(r, outcome) ==
    /\ r \in runs /\ r.stage = "diff"
    /\ lastEvent' = EventOf("diff", r.editor, outcome.kind)
    /\ UNCHANGED lastEdit
    /\ FinishRun(r)
    /\ deco' = IF outcome.kind = "none" THEN deco
               ELSE IF outcome.kind = "throws"
               THEN clearDecorationsForEditor(deco, r.editor)
               ELSE ApplyBundle(deco, r.editor, r.id, outcome)
    /\ UNCHANGED <<inlineDiffDecorationEnabled, updateTimeout, timers, nextTimer,
                   activeEditor, nextRun>>
    /\ UNCHANGED callVars

\* The toggle command resumes behind `await showDiffForEditor(editor)`.
ToggleResumes ==
    /\ resuming > 0
    /\ resuming' = resuming - 1
    /\ inlineDiffDecorationEnabled' = TRUE
    /\ lastEvent' = Event("toggleResumes", NoEditor)
    /\ UNCHANGED lastEdit
    /\ UNCHANGED <<updateTimeout, timers, nextTimer, activeEditor, runs, nextRun,
                   deco>>
    /\ UNCHANGED callVars

\* Deactivation: the subscription that disposes the manager and the
\* deleted-line decoration types still listed.  Timers that are pending
\* and runs that are suspended go on.
Deactivated ==
    /\ HostTurn /\ Activated
    /\ deco' = clearAllDeletedLineDecorations(ManagerDispose(deco))
    /\ lastEvent' = Event("deactivate", NoEditor)
    /\ UNCHANGED lastEdit
    /\ UNCHANGED <<inlineDiffDecorationEnabled, updateTimeout, timers, nextTimer,
                   activeEditor, runs, resuming, nextRun>>
    /\ UNCHANGED callVars

NextEvents ==
    \/ ToggleNoEditor
    \/ ToggleOff
    \/ ToggleOn
    \/ \E ed \in Editors : DocumentChanged(ed)
    \/ \E t \in timers : TimerFires(t)
    \/ \E ed \in Editors \cup {NoEditor} : ActiveEditorChanged(ed)
    \/ \E ed \in Editors, visible \in BOOLEAN : DocumentClosed(ed, visible)
    \/ \E r \in runs : \E outcome \in StatusOutcomes : StatusReturns(r, outcome)
    \/ \E r \in runs : \E outcome \in DiffOutcomes : DiffReturns(r, outcome)
    \/ ToggleResumes
    \/ Deactivated

SpecEvents == InitEvents /\ [][NextEvents]_vars

(***************************************************************************)
(* The DecorationManager on its own: any sequence of calls of its public   *)
(* methods, on any editor and with any options map.                        *)
(***************************************************************************)
\* The options maps by their shape: the categories that are not empty.
OptionShapes == SUBSET ManagedTypes

InitManager ==
    /\ pc = "manager"
    /\ ExtensionIdle
    /\ DifferIdle
    /\ parsedDiff = <<>>
    /\ document = <<>>
    /\ result = NoVal
    /\ walk = NoWalk
    /\ diffOutput = <<>>
    /\ parseResult = <<>>
    /\ extParseResult = <<>>

\* decorationManager.applyDecorations(ed, optionsMap)
ApplyCalled(ed, cats) ==
    /\ pc = "manager"
    /\ deco' = ManagerApply(deco, ed, cats, 1)
    /\ lastEvent' = Event("applyDecorations", ed)
    /\ UNCHANGED <<inlineDiffDecorationEnabled, updateTimeout, timers, nextTimer,
                   activeEditor, runs, resuming, nextRun, lastEdit>>
    /\ UNCHANGED callVars

\* decorationManager.clearDecorations(ed)
ClearCalled(ed) ==
    /\ pc = "manager"
    /\ deco' = ManagerClear(deco, ed)
    /\ lastEvent' = Event("clearDecorations", ed)
    /\ UNCHANGED <<inlineDiffDecorationEnabled, updateTimeout, timers, nextTimer,
                   activeEditor, runs, resuming, nextRun, lastEdit>>
    /\ UNCHANGED callVars

\* decorationManager.clearAllDecorations()
ClearAllCalled ==
    /\ pc = "manager"
    /\ deco' = ManagerClearAll(deco)
    /\ lastEvent' = Event("clearAllDecorations", NoEditor)
    /\ UNCHANGED <<inlineDiffDecorationEnabled, updateTimeout, timers, nextTimer,
                   activeEditor, runs, resuming, nextRun, lastEdit>>
    /\ UNCHANGED callVars

\* decorationManager.dispose()
DisposeCalled ==
    /\ pc = "manager"
    /\ deco' = ManagerDispose(deco)
    /\ lastEvent' = Event("dispose", NoEditor)
    /\ UNCHANGED <<inlineDiffDecorationEnabled, updateTimeout, timers, nextTimer,
                   activeEditor, runs, resuming, nextRun, lastEdit>>
    /\ UNCHANGED callVars

NextManager ==
    \/ \E ed \in Editors, cats \in OptionShapes : ApplyCalled(ed, cats)
    \/ \E ed \in Editors : ClearCalled(ed)
    \/ ClearAllCalled
    \/ DisposeCalled

SpecManager == InitManager /\ [][NextManager]_vars

(***************************************************************************)
(* Vocabulary of the properties, computed from the hunk alone (not from    *)
(* the cursors of the run).  Spec hands calculateDecorations one hunk, so  *)
(* an editor line or an old line number names one record of the input.     *)
(***************************************************************************)
Hunks == { parsedDiff[k] : k \in 1..Len(parsedDiff) }

Bundle == result.decorationOptions
Ghosts == result.inlineDeletedLineOptions

\* The editor line record i of h stands on, and its old-file line number.
EditorLineOf(h, i) ==
    h.newStart - 1 + Count(SubSeq(h.lines, 1, i - 1), {"added", "unchanged"})
OldNumberOf(h, i) ==
    h.oldStart + Count(SubSeq(h.lines, 1, i - 1), {"removed", "unchanged"})

InDocument(e) == 0 <= e /\ e < Len(document)

IsRemoved(h, i) == i \in 1..Len(h.lines) /\ h.lines[i].type = "removed"
IsAdded(h, i) == i \in 1..Len(h.lines) /\ h.lines[i].type = "added"
IsPureDeletion(h, i) == IsRemoved(h, i) /\ ~IsAdded(h, i + 1)

\* How many entries of a category lie on editor line e.
OnLine(entries, e) ==
    Cardinality({ k \in 1..Len(entries) : entries[k].range.sl = e })

\* The text '- <n>: <content>' of the ghost of record i (n below 100).
TwoDigits(n) ==
    LET D == <<"0", "1", "2", "3", "4", "5", "6", "7", "8", "9">>
    IN  IF n < 10 THEN <<D[n + 1]>> ELSE <<D[(n \div 10) + 1], D[(n % 10) + 1]>>
GhostText(h, i) ==
    <<"-", " ">> \o TwoDigits(OldNumberOf(h, i)) \o <<":", " ">> \o h.lines[i].content

\* The positions in the ghost list that show record i of h.
GhostsOf(h, i) ==
    { k \in 1..Len(Ghosts) : Ghosts[k].contentText = GhostText(h, i) }

SegmentCount(segs, kind) ==
    Cardinality({ k \in 1..Len(segs) :
                    IF kind = "inserted" THEN segs[k].added ELSE segs[k].removed })

\* Records i (removed) and i + 1 (added) form a pair shown in the document.
IsShownPair(h, i) ==
    IsRemoved(h, i) /\ IsAdded(h, i + 1) /\ InDocument(EditorLineOf(h, i + 1))

\* C1: a removed record immediately followed by an added record whose
\* editor line is in the document yields no whole-line-added entry and no
\* deleted-line ghost, exactly one whole-line-modified entry on that line,
\* one inserted-text range per inserted segment and one deleted-text marker
\* per deleted segment of diffStrings(removed.content, added.content).
C1_ModificationPair ==
    pc = "done" =>
        \A h \in Hunks : \A i \in 1..Len(h.lines) :
            IsShownPair(h, i) =>
                LET e == EditorLineOf(h, i + 1)
                    segs == diffStrings(h.lines[i].content, h.lines[i + 1].content)
                IN  /\ OnLine(Bundle.addedLines, e) = 0
                    /\ GhostsOf(h, i) = {}
                    /\ OnLine(Bundle.modifiedLines, e) = 1
                    /\ OnLine(Bundle.addedTexts, e) = SegmentCount(segs, "inserted")
                    /\ OnLine(Bundle.deletedCharacterMarkers, e)
                           = SegmentCount(segs, "deleted")

C1_Witness ==
    /\ pc = "done"
    /\ \E h \in Hunks : \E i \in 1..Len(h.lines) :
           /\ IsShownPair(h, i)
           /\ OnLine(Bundle.modifiedLines, EditorLineOf(h, i + 1)) = 1
           /\ OnLine(Bundle.addedTexts, EditorLineOf(h, i + 1)) = 1
           /\ OnLine(Bundle.deletedCharacterMarkers, EditorLineOf(h, i + 1)) = 1

\* Records s .. s+N-1 are removed and s+N .. s+N+M-1 are added, and the
\* editor lines of the added records are all in the document.
IsShownRun(h, s, N, M) ==
    /\ N >= 1 /\ M >= 1 /\ s >= 1 /\ s + N + M - 1 <= Len(h.lines)
    /\ \A j \in s..(s + N - 1) : IsRemoved(h, j)
    /\ \A j \in (s + N)..(s + N + M - 1) :
           IsAdded(h, j) /\ InDocument(EditorLineOf(h, j))

\* C2: tie-break.  In a run of N removed records immediately followed by M
\* added records (editor lines in range) only the last removed record pairs
\* with the first added record: the first N-1 removed records get one ghost
\* each and the last none, the first added line is the only modified line,
\* and the M-1 later added lines are whole-line-added.
C2_TieBreak ==
    pc = "done" =>
        \A h \in Hunks : \A s \in 1..Len(h.lines) :
            \A N \in 1..Len(h.lines) : \A M \in 1..Len(h.lines) :
                IsShownRun(h, s, N, M) =>
                    LET e == EditorLineOf(h, s + N)
                    IN  /\ \A j \in s..(s + N - 2) : Cardinality(GhostsOf(h, j)) = 1
                        /\ GhostsOf(h, s + N - 1) = {}
                        /\ OnLine(Bundle.modifiedLines, e) = 1
                        /\ OnLine(Bundle.addedLines, e) = 0
                        /\ \A j \in 1..(M - 1) :
                               /\ OnLine(Bundle.modifiedLines, e + j) = 0
                               /\ OnLine(Bundle.addedLines, e + j) = 1

C2_Witness ==
    /\ pc = "done"
    /\ \E h \in Hunks : \E s \in 1..Len(h.lines) :
           /\ IsShownRun(h, s, 2, 2)
           /\ Len(Ghosts) = 1
           /\ Len(Bundle.modifiedLines) = 1
           /\ Len(Bundle.addedLines) = 1

\* Records s .. s+k-1 are removed, the run is not followed by an added
\* record, and the editor line before the deletion point is in the document.
IsDeletionRun(h, s, k) ==
    /\ k >= 1 /\ s >= 1 /\ s + k - 1 <= Len(h.lines)
    /\ \A j \in s..(s + k - 1) : IsRemoved(h, j)
    /\ ~IsAdded(h, s + k)
    /\ InDocument(EditorLineOf(h, s) - 1)

\* C3: k consecutive pure deletions with an in-range preceding editor line
\* give exactly k ghosts, in record order, all on that preceding line, each
\* with the text '- <n>: <content>', n = oldStart + the number of removed
\* and unchanged records before the record.
C3_ConsecutiveDeletions ==
    pc = "done" =>
        \A h \in Hunks : \A s \in 1..Len(h.lines) : \A k \in 1..Len(h.lines) :
            IsDeletionRun(h, s, k) =>
                LET p == EditorLineOf(h, s) - 1
                IN  /\ \A j \in s..(s + k - 1) :
                           /\ Cardinality(GhostsOf(h, j)) = 1
                           /\ \A g \in GhostsOf(h, j) :
                                  Ghosts[g].range = Range(p, 0, p, Len(document[p + 1]))
                    /\ \A j1, j2 \in s..(s + k - 1) :
                           j1 < j2 =>
                               \A g1 \in GhostsOf(h, j1), g2 \in GhostsOf(h, j2) : g1 < g2

C3_Witness ==
    /\ pc = "done"
    /\ \E h \in Hunks : \E s \in 2..Len(h.lines) :
           /\ IsDeletionRun(h, s, 2)
           /\ IsAdded(h, s - 1)
           /\ OldNumberOf(h, s + 1) >= 10
           /\ Len(Ghosts) = 2

\* C4: a pure deletion whose preceding editor line index is negative puts
\* its ghost on editor line 0 when the document has a line, and the run
\* does not fail.
C4_DeletionAtStart ==
    pc = "done" =>
        \A h \in Hunks : \A i \in 1..Len(h.lines) :
            (IsPureDeletion(h, i) /\ EditorLineOf(h, i) - 1 < 0 /\ Len(document) > 0) =>
                /\ ~result.threw
                /\ Cardinality(GhostsOf(h, i)) = 1
                /\ \A g \in GhostsOf(h, i) :
                       Ghosts[g].range = Range(0, 0, 0, Len(document[1]))

C4_Witness ==
    /\ pc = "done"
    /\ Len(document) > 0
    /\ \E h \in Hunks : \E i \in 1..Len(h.lines) :
           /\ IsPureDeletion(h, i)
           /\ EditorLineOf(h, i) - 1 < 0
           /\ \E g \in GhostsOf(h, i) : Ghosts[g].range.sl = 0

\* A pure deletion that has a line to attach to: the preceding line when
\* it is in the document, line 0 when there is no preceding line.
HasGhostLine(h, i) ==
    IF EditorLineOf(h, i) - 1 >= 0
    THEN InDocument(EditorLineOf(h, i) - 1)
    ELSE Len(document) > 0

\* C5: every ghost sits on an editor line of the document; a pure deletion
\* whose preceding line is at or past the end, and any pure deletion in a
\* document without lines, gives no ghost; the other records of the hunk
\* are still processed (every one that has a line gets its annotation).
C5_GhostsInDocument ==
    pc = "done" =>
        /\ ~result.threw
        /\ \A g \in 1..Len(Ghosts) :
               InDocument(Ghosts[g].range.sl) /\ Ghosts[g].range.el = Ghosts[g].range.sl
        /\ \A h \in Hunks : \A i \in 1..Len(h.lines) :
               IsPureDeletion(h, i) =>
                   Cardinality(GhostsOf(h, i)) = IF HasGhostLine(h, i) THEN 1 ELSE 0
        /\ \A h \in Hunks : \A i \in 1..Len(h.lines) :
               (IsAdded(h, i) /\ InDocument(EditorLineOf(h, i))) =>
                   OnLine(Bundle.addedLines, EditorLineOf(h, i))
                       + OnLine(Bundle.modifiedLines, EditorLineOf(h, i)) = 1

C5_Witness ==
    /\ pc = "done"
    /\ Len(Ghosts) = 1
    /\ \E h \in Hunks : \E i \in 1..Len(h.lines) :
           /\ IsPureDeletion(h, i)
           /\ EditorLineOf(h, i) - 1 >= Len(document)
           /\ GhostsOf(h, i) = {}

\* A range that lies inside the document: its line exists and its columns
\* do not pass the end of the live text of that line.
RangeInDocument(r) ==
    /\ InDocument(r.sl) /\ r.el = r.sl
    /\ 0 <= r.sc /\ r.sc <= r.ec
    /\ r.ec <= Len(document[r.sl + 1])

AllInDocument(entries) ==
    \A k \in 1..Len(entries) : RangeInDocument(entries[k].range)

\* C6: every range of the bundle (addedLines, modifiedLines, addedTexts,
\* deletedCharacterMarkers) lies inside the current document.
C6_RangesInDocument ==
    pc = "done" =>
        /\ AllInDocument(Bundle.addedLines)
        /\ AllInDocument(Bundle.modifiedLines)
        /\ AllInDocument(Bundle.addedTexts)
        /\ AllInDocument(Bundle.deletedCharacterMarkers)
(***************************************************************************)
(* Vocabulary of the parser properties, read off the diff text: which      *)
(* lines are headers (the headers of the pool), what they state, and the   *)
(* body lines that follow each header.                                     *)
(***************************************************************************)
TextLines == SplitLines(diffOutput, 1, <<>>)

HeaderPositions(tl) == { k \in 1..Len(tl) : tl[k] \in HeaderLines }

\* The position of the j-th header line, and the header it shows.
NthHeader(hp, j) ==
    CHOOSE k \in hp : Cardinality({ m \in hp : m < k }) = j - 1
StatedBy(line) == CHOOSE hd \in HeaderPool : hd.text = line
StatedCount(c) == IF c = -1 THEN 1 ELSE c

\* The lines after the j-th header up to the next header or the end.
BodyOf(tl, hp, j) ==
    LET from == NthHeader(hp, j)
        later == { k \in hp : k > from }
        upto == IF later = {} THEN Len(tl)
                ELSE (CHOOSE k \in later : \A m \in later : k <= m) - 1
    IN  SubSeq(tl, from + 1, upto)

FirstCharIn(line, cs) == Len(line) >= 1 /\ line[1] \in cs
IsRecordLine(line) == FirstCharIn(line, {"+", "-", " "})
IsMinusLine(line) == FirstCharIn(line, {"-"})

RecordOfLine(line) ==
    [type |-> IF line[1] = "+" THEN "added"
              ELSE IF line[1] = "-" THEN "removed" ELSE "unchanged",
     content |-> Tail(line)]

RecordsOfBody(body) ==
    LET kept == SelectSeq(body, IsRecordLine)
    IN  [k \in 1..Len(kept) |-> RecordOfLine(kept[k])]

IsRemovedRecord(r) == r.type = "removed"

LinesCounted(body, cs) ==
    Cardinality({ k \in 1..Len(body) : FirstCharIn(body[k], cs) })

\* The body after a header has as many old and new lines as the header
\* states.
CountsFitBody(header, body) ==
    LET hd == StatedBy(header)
    IN  /\ LinesCounted(body, {"-", " "}) = StatedCount(hd.oldCount)
        /\ LinesCounted(body, {"+", " "}) = StatedCount(hd.newCount)

CountsMatchRecords(hunk) ==
    /\ Count(hunk.lines, {"removed", "unchanged"}) = hunk.oldCount
    /\ Count(hunk.lines, {"added", "unchanged"}) = hunk.newCount

\* C9 (as stated): in every hunk returned by parseGitDiff the removed plus
\* unchanged records number oldCount and the added plus unchanged records
\* number newCount.
C9_CountsMatchRecords ==
    pc = "parsed" =>
        \A j \in 1..Len(parseResult) : CountsMatchRecords(parseResult[j])

\* C9 (amended): the equalities hold for every hunk whose header counts
\* (an omitted count reading as 1) are the numbers of old and new body
\* lines that follow the header; the parser copies the counts from the
\* header and does not compare them with the body.
C9_CountsMatchWhenHeaderFits ==
    pc = "parsed" =>
        LET tl == TextLines
            hp == HeaderPositions(tl)
        IN  \A j \in 1..Len(parseResult) :
                (j <= Cardinality(hp)
                 /\ CountsFitBody(tl[NthHeader(hp, j)], BodyOf(tl, hp, j)))
                    => CountsMatchRecords(parseResult[j])

C9_Witness ==
    /\ pc = "parsed"
    /\ LET tl == TextLines
           hp == HeaderPositions(tl)
       IN  \E j \in 1..Len(parseResult) :
               /\ j <= Cardinality(hp)
               /\ CountsFitBody(tl[NthHeader(hp, j)], BodyOf(tl, hp, j))
               /\ Len(parseResult[j].lines) >= 2
               /\ parseResult[j].oldCount = 1
               /\ parseResult[j].newCount = 2

\* C10: within an open hunk the body lines become records in input order,
\* typed by their first character alone ('+' added, '-' removed, ' '
\* unchanged, anything else no record), the content being the line without
\* its first character; so the removed records are the '-' lines of the
\* body, in order, wherever they stand.
C10_BodyLinesToRecords ==
    pc = "parsed" =>
        LET tl == TextLines
            hp == HeaderPositions(tl)
        IN  \A j \in 1..Len(parseResult) :
                /\ j <= Cardinality(hp)
                /\ LET body == BodyOf(tl, hp, j)
                       removed == SelectSeq(parseResult[j].lines, IsRemovedRecord)
                       minus == SelectSeq(body, IsMinusLine)
                   IN  /\ parseResult[j].lines = RecordsOfBody(body)
                       /\ Len(removed) = Len(minus)
                       /\ \A k \in 1..Len(minus) :
                              removed[k].content = Tail(minus[k])

C10_Witness ==
    /\ pc = "parsed"
    /\ \E j \in 1..Len(parseResult) :
           /\ Len(parseResult[j].lines) = 3
           /\ parseResult[j].lines[1].type = "removed"
           /\ parseResult[j].lines[2].type = "unchanged"
           /\ parseResult[j].lines[3] = [type |-> "removed", content |-> <<"+">>]

\* The header the j-th header line of the text shows.
HeaderOf(tl, hp, j) == StatedBy(tl[NthHeader(hp, j)])

\* C11: parseGitDiff returns as many hunks as the input has lines matching
\* the hunk-header pattern: a header finalizes the open hunk and opens a
\* new one, the end of the input finalizes the open hunk, and a body line
\* neither opens nor closes a hunk.
C11_OneHunkPerHeader ==
    pc = "parsed" =>
        Len(parseResult) = Cardinality(HeaderPositions(TextLines))

C11_Witness ==
    /\ pc = "parsed"
    /\ LET tl == TextLines
       IN  /\ Cardinality(HeaderPositions(tl)) = 2
           /\ Len(tl) = 4
           /\ IsRecordLine(tl[Len(tl)])
           /\ Len(parseResult) = 2

\* C12: for every accepted header, oldCount is the count the header gives
\* (an explicit 0 included) and 1 when the header omits it, and newCount
\* likewise, each on its own.
C12_CountsExplicitOrOne ==
    pc = "parsed" =>
        LET tl == TextLines
            hp == HeaderPositions(tl)
        IN  \A j \in 1..Len(parseResult) :
                j <= Cardinality(hp) =>
                    LET hd == HeaderOf(tl, hp, j)
                    IN  /\ hd.oldCount = -1 => parseResult[j].oldCount = 1
                        /\ hd.oldCount # -1 =>
                               parseResult[j].oldCount = hd.oldCount
                        /\ hd.newCount = -1 => parseResult[j].newCount = 1
                        /\ hd.newCount # -1 =>
                               parseResult[j].newCount = hd.newCount

C12_Witness ==
    /\ pc = "parsed"
    /\ Len(parseResult) = 2
    /\ parseResult[1].oldCount = 0 /\ parseResult[1].newCount = 1
    /\ parseResult[2].oldCount = 1 /\ parseResult[2].newCount = 2

\* C13: parseGitDiff on the empty text returns the empty hunk sequence.
C13_EmptyInputNoHunks ==
    (pc = "parsed" /\ diffOutput = <<>>) => parseResult = <<>>

C13_Witness ==
    pc = "parsed" /\ diffOutput = <<>> /\ parseResult = <<>>

\* The lines that are no header: what a preamble can hold.
PreambleLines == BodyPool \cup {NearHeader}

\* C14: the lines before the first header are discarded: a text without
\* header gives no hunk, the first hunk holds only the records of the lines
\* after its header, and a non-header line put in front of the text leaves
\* the parse result as it is.
C14_PreambleDiscarded ==
    pc = "parsed" =>
        LET tl == TextLines
            hp == HeaderPositions(tl)
        IN  /\ hp = {} => parseResult = <<>>
            /\ hp # {} => /\ Len(parseResult) >= 1
                          /\ parseResult[1].lines = RecordsOfBody(BodyOf(tl, hp, 1))
            /\ \A pre \in PreambleLines :
                   parseGitDiff(pre \o <<NewLine>> \o diffOutput) = parseResult

C14_Witness ==
    /\ pc = "parsed"
    /\ LET tl == TextLines
       IN  /\ Len(tl) = 4
           /\ IsRecordLine(tl[1])
           /\ tl[2] = NearHeader
           /\ tl[3] \in HeaderLines
           /\ IsRecordLine(tl[4])
    /\ Len(parseResult) = 1
    /\ Len(parseResult[1].lines) = 1

\* C15 (as stated): the hunks of the result are in strictly increasing
\* newStart order.
C15_StrictlyIncreasingNewStart ==
    pc = "parsed" =>
        \A j \in 1..(Len(parseResult) - 1) :
            parseResult[j].newStart < parseResult[j + 1].newStart

\* C15 (amended): the hunks of the result are in the order of their
\* headers in the text, the j-th hunk carrying the starts of the j-th
\* header; so they are in strictly increasing newStart order whenever the
\* headers of the text are.
C15_HunksInHeaderOrder ==
    pc = "parsed" =>
        LET tl == TextLines
            hp == HeaderPositions(tl)
        IN  /\ \A j \in 1..Len(parseResult) :
                   /\ j <= Cardinality(hp)
                   /\ parseResult[j].newStart = HeaderOf(tl, hp, j).newStart
                   /\ parseResult[j].oldStart = HeaderOf(tl, hp, j).oldStart
            /\ (\A j \in 1..(Cardinality(hp) - 1) :
                    HeaderOf(tl, hp, j).newStart < HeaderOf(tl, hp, j + 1).newStart)
               => \A j \in 1..(Len(parseResult) - 1) :
                      parseResult[j].newStart < parseResult[j + 1].newStart

C15_Witness ==
    /\ pc = "parsed"
    /\ Len(parseResult) = 2
    /\ parseResult[1].newStart = 1
    /\ parseResult[2].newStart = 2
    /\ parseResult[1].lines # <<>>

(***************************************************************************)
(* Vocabulary of the differ properties.                                    *)
(***************************************************************************)
RECURSIVE Concat(_)
Concat(texts) ==
    IF texts = <<>> THEN <<>> ELSE Head(texts) \o Concat(Tail(texts))

IsNotAdded(seg) == ~seg.added
IsNotRemoved(seg) == ~seg.removed

\* The texts of the segments of the library's result, in order.
ValuesOf(segs) == [k \in 1..Len(segs) |-> segs[k].value]

\* The text a range of extension.ts's result stands for: columns of the
\* new string for an added range, of the old string otherwise.
ChangeText(c) ==
    IF c.type = "added" THEN Slice(newStr, c.start, c.end)
    ELSE Slice(oldStr, c.start, c.end)

IsNotAddedChange(c) == c.type # "added"
IsNotRemovedChange(c) == c.type # "removed"

TextsOf(cs) == [k \in 1..Len(cs) |-> ChangeText(cs[k])]

\* C16: the segments of diffStrings(a, b), in order, give back a through
\* the equal and deleted segments and b through the equal and inserted
\* segments; for the library's differ and for the one of extension.ts.
C16_Reconstruction ==
    pc = "diffed" =>
        /\ Concat(ValuesOf(SelectSeq(charSegments, IsNotAdded))) = oldStr
        /\ Concat(ValuesOf(SelectSeq(charSegments, IsNotRemoved))) = newStr
        /\ Concat(TextsOf(SelectSeq(changes, IsNotAddedChange))) = oldStr
        /\ Concat(TextsOf(SelectSeq(changes, IsNotRemovedChange))) = newStr

C16_Witness ==
    /\ pc = "diffed"
    /\ oldStr = <<"a", "a", "b">>
    /\ newStr = <<"a", "b", "b">>
    /\ Len(changes) = 4
    /\ Len(charSegments) >= 3
    /\ \E k \in 1..Len(charSegments) : charSegments[k].removed
    /\ \E k \in 1..Len(charSegments) : charSegments[k].added

\* C17: for a non-empty string a, diffStrings(a, a) is exactly one segment,
\* of kind equal, covering all of a.
C17_IdenticalInputsOneEqual ==
    (pc = "diffed" /\ oldStr = newStr /\ oldStr # <<>>) =>
        /\ charSegments = <<[value |-> oldStr, added |-> FALSE, removed |-> FALSE]>>
        /\ changes = <<Change("unchanged", 0, Len(oldStr))>>

C17_Witness ==
    /\ pc = "diffed"
    /\ oldStr = newStr
    /\ Len(oldStr) = MaxStrLen
    /\ Len(charSegments) = 1
    /\ Len(changes) = 1

\* C18: when exactly one input of diffStrings is the empty string, the
\* result is one segment covering the whole other input: inserted when the
\* old string is empty, deleted when the new string is empty.
C18_OneEmptyInput ==
    pc = "diffed" =>
        /\ (oldStr = <<>> /\ newStr # <<>>) =>
               /\ charSegments = <<[value |-> newStr, added |-> TRUE,
                                    removed |-> FALSE]>>
               /\ changes = <<Change("added", 0, Len(newStr))>>
        /\ (newStr = <<>> /\ oldStr # <<>>) =>
               /\ charSegments = <<[value |-> oldStr, added |-> FALSE,
                                    removed |-> TRUE]>>
               /\ changes = <<Change("removed", 0, Len(oldStr))>>

C18_Witness ==
    /\ pc = "diffed"
    /\ oldStr = <<>>
    /\ Len(newStr) = MaxStrLen
    /\ Len(charSegments) = 1
    /\ charSegments[1].added

(***************************************************************************)
(* Vocabulary of the properties of the activated extension.                *)
(***************************************************************************)
\* The runs whose decorations editor ed carries: through a managed type or
\* through a deleted-line decoration type that was not disposed.
RunsShownOn(ed) ==
    ({ deco.shown[ed][t] : t \in ManagedTypes } \ {0})
        \cup { g[1] : g \in deco.ghosts[ed] }

\* The deleted-line decoration types of ed that activeDeletedLineDecorations
\* does not list, so that no clearing function can dispose them any more.
UntrackedGhosts(ed) == deco.ghosts[ed] \ deco.deleted[ed].ids

\* C7: for any interleaving of showDiffForEditor invocations on the same
\* editor, once all invocations have finished the editor carries the
\* decorations of at most one run, and no deleted-line decoration type is
\* left undisposed and missing from activeDeletedLineDecorations.
C7_NewResultRetractsPrevious ==
    (pc = "events" /\ runs = {}) =>
        \A ed \in Editors :
            /\ Cardinality(RunsShownOn(ed)) <= 1
            /\ UntrackedGhosts(ed) = {}

\* A document-change step for the active editor taken while a timer is
\* pending cancels that timer and leaves exactly one, new, timer pending,
\* without starting a recomputation itself; a timer firing starts exactly
\* one recomputation and leaves no timer pending.
DebounceStep ==
    /\ ( /\ lastEvent'.kind = "documentChange"
         /\ lastEvent'.editor = activeEditor
         /\ timers # {} )
       => /\ \E t \in timers' : timers' = {t} /\ t \notin timers
          /\ runs' = runs
    /\ lastEvent'.kind = "timer"
       => /\ Cardinality(runs') = Cardinality(runs) + 1
          /\ timers' = {}

\* C8: debounce.  At every moment at most one recomputation timer is
\* pending, and a document-change event for the active editor that arrives
\* while a timer is pending cancels it and schedules a new one, so that a
\* burst of edits starts exactly one recomputation.
C8_Debounce ==
    /\ [](Cardinality(timers) <= 1)
    /\ [][DebounceStep]_vars


\* Run r of showDiffForEditor ends in this step.
Finishes(r) == r \in runs /\ \A q \in runs' : q.id # r.id

\* The collaborator's answer that ends the run in this step is one of
\* "nothing to annotate": no status, not modified, no diff text, no hunk.
NothingToAnnotate ==
    \/ lastEvent'.kind = "status" /\ lastEvent'.outcome \in {"null", "notModified"}
    \/ lastEvent'.kind = "diff" /\ lastEvent'.outcome = "none"

\* C20: when the git collaborator reports no status, a file that is not
\* modified, no diff text or a diff without hunk, a run of showDiffForEditor
\* that no other run overlapped ends with no diff decoration of any kind
\* on its editor.
C20_NothingToAnnotateLeavesNothing ==
    [][\A r \in runs :
           (Finishes(r) /\ r.alone /\ NothingToAnnotate)
               => (RunsShownOn(r.editor) = {})']_vars


\* The step ends a run of showDiffForEditor in its catch block: the
\* collaborator's call was rejected, or steps 3 to 6 raised.
EndsInCatch == lastEvent'.kind \in {"status", "diff"} /\ lastEvent'.outcome = "throws"

\* C21: an exception raised inside showDiffForEditor is caught, and after
\* the catch block the editor carries no diff decoration, standard or
\* deleted-line, of this or of any earlier run.
C21_FailureLeavesNothing ==
    [][\A r \in runs :
           (Finishes(r) /\ EndsInCatch) => (RunsShownOn(r.editor) = {})']_vars

\* The toggle command has been asked to switch the feature on and awaits
\* its run of showDiffForEditor, or has not yet resumed behind the await.
TogglingOn == (\E r \in runs : r.toggle) \/ resuming > 0

\* C22: while the feature is switched off (and no toggle-on is under way)
\* no editor carries a diff decoration, whatever timer was pending or run
\* was in flight when it was switched off.
C22_ToggleOffEffective ==
    (pc = "events" /\ ~inlineDiffDecorationEnabled /\ ~TogglingOn) =>
        \A ed \in Editors : RunsShownOn(ed) = {}


\* Nothing is scheduled and nothing is in flight: what the editors show
\* now is what they keep showing.
Quiescent == timers = {} /\ runs = {} /\ resuming = 0

\* C23 (the final display): with the feature on and the active editor
\* unchanged since the last edit of the active document, the decorations
\* finally left on that editor come from a recomputation that started
\* after that edit, never from one started before it.
C23_FinalDisplayIsFresh ==
    (pc = "events" /\ inlineDiffDecorationEnabled /\ lastEdit > 0 /\ Quiescent) =>
        \A id \in RunsShownOn(activeEditor) : id >= lastEdit

(***************************************************************************)
(* Properties of the loops of calculateDecorations (SpecHunks).            *)
(***************************************************************************)
\* The hunk the loops stand at and the records already processed in it.
WalkHunk == parsedDiff[walk.k]
WalkedRecords == SubSeq(WalkHunk.lines, 1, walk.i - 1)
InsideHunk == walk.k >= 1 /\ ~walk.st.threw

\* C24: cursor invariant.  When record i of a hunk is processed (and after
\* the last one), editorLineIndex is hunk.newStart - 1 plus the number of
\* added and unchanged records before i, and oldLineIndexInHunk is the
\* number of removed and unchanged records before i: added records advance
\* the first cursor even when skipped as out of range, removed records
\* advance only the second, in a modification or not, and both cursors
\* start afresh in every hunk.
C24_CursorInvariant ==
    InsideHunk =>
        /\ walk.st.editorLineIndex
               = WalkHunk.newStart - 1 + Count(WalkedRecords, {"added", "unchanged"})
        /\ walk.st.oldLineIndexInHunk
               = Count(WalkedRecords, {"removed", "unchanged"})

\* The second hunk has been entered after a first hunk that moved both
\* cursors, and in it an added record beyond the document's end and a
\* removed record of a modification have been processed.
C24_Witness ==
    /\ InsideHunk
    /\ walk.k = 2
    /\ Count(parsedDiff[1].lines, {"removed"}) >= 1
    /\ Count(parsedDiff[1].lines, {"added"}) >= 1
    /\ walk.i = 3
    /\ IsRemoved(WalkHunk, 1) /\ IsAdded(WalkHunk, 2)
    /\ ~InDocument(EditorLineOf(WalkHunk, 2))
    /\ walk.st.editorLineIndex = WalkHunk.newStart
    /\ walk.st.oldLineIndexInHunk = 1

\* The inner loop stands at an added record and will look its line up.
LooksUpLine ==
    /\ pc = "walking"
    /\ ~HunkExhausted
    /\ IsAdded(WalkHunk, walk.i)
    /\ walk.st.editorLineIndex < lineCount(document)

\* C25: for every hunk parseGitDiff can return (newStart = 0 included)
\* and every document, calculateDecorations calls document.lineAt only with
\* an index in [0, lineCount) and so returns without raising.
C25_LookupsInDocument ==
    /\ LooksUpLine => walk.st.editorLineIndex >= 0
    /\ pc = "done" => ~result.threw

(***************************************************************************)
(* Properties of the character walk of a modification (SpecModification).  *)
(***************************************************************************)
\* The column of the new line at which segment j starts.
ColumnAt(segs, j) ==
    Len(Concat(ValuesOf(SelectSeq(SubSeq(segs, 1, j - 1), IsNotRemoved))))

\* The positions of the deleted (or inserted) segments, in order.
PositionsOf(segs, kind) ==
    SelectSeq([j \in 1..Len(segs) |-> j],
              LAMBDA j : IF kind = "deleted" THEN segs[j].removed
                         ELSE segs[j].added)

\* The entries of a category that lie on editor line e, in order.
EntriesOn(entries, e) == SelectSeq(entries, LAMBDA x : x.range.sl = e)

\* C26: in the character walk of a modification every deleted segment
\* yields a zero-width marker at the column the new line has reached,
\* carrying the deleted text, and does not move the column: the k-th marker
\* of the line stands at the total length of the inserted and equal
\* segments before the k-th deleted segment.
C26_DeletedMarkers ==
    pc = "done" =>
        \A h \in Hunks : \A i \in 1..Len(h.lines) :
            IsShownPair(h, i) =>
                LET e == EditorLineOf(h, i + 1)
                    segs == diffStrings(h.lines[i].content, h.lines[i + 1].content)
                    pos == PositionsOf(segs, "deleted")
                    ms == EntriesOn(Bundle.deletedCharacterMarkers, e)
                IN  /\ Len(ms) = Len(pos)
                    /\ \A k \in 1..Len(pos) :
                           LET col == ColumnAt(segs, pos[k])
                           IN  /\ ms[k].range = Range(e, col, e, col)
                               /\ ms[k].contentText = segs[pos[k]].value

\* 'aba' became 'b': two markers, at columns 0 and 1, each carrying 'a'.
C26_Witness ==
    /\ pc = "done"
    /\ IsShownPair(parsedDiff[1], 1)
    /\ parsedDiff[1].lines[1].content = <<"a", "b", "a">>
    /\ parsedDiff[1].lines[2].content = <<"b">>
    /\ Bundle.deletedCharacterMarkers
           = << [range |-> Range(0, 0, 0, 0), contentText |-> <<"a">>],
                [range |-> Range(0, 1, 0, 1), contentText |-> <<"a">>] >>

\* C27: in the character walk of a modification the inserted ranges of the
\* line are the half-open column intervals [c, c + len) of the inserted
\* segments, pairwise disjoint and in strictly increasing order; no marker
\* stands beyond the length of the added record's content; and the column
\* cursor ends at exactly that length.
C27_InsertedRanges ==
    pc = "done" =>
        \A h \in Hunks : \A i \in 1..Len(h.lines) :
            IsShownPair(h, i) =>
                LET e == EditorLineOf(h, i + 1)
                    new == h.lines[i + 1].content
                    segs == diffStrings(h.lines[i].content, new)
                    pos == PositionsOf(segs, "inserted")
                    ins == EntriesOn(Bundle.addedTexts, e)
                    ms == EntriesOn(Bundle.deletedCharacterMarkers, e)
                    end == CharWalk([col |-> 0, addedTexts |-> <<>>, markers |-> <<>>],
                                    segs, e).col
                IN  /\ Len(ins) = Len(pos)
                    /\ \A k \in 1..Len(pos) :
                           LET col == ColumnAt(segs, pos[k])
                           IN  ins[k].range
                                   = Range(e, col, e, col + Len(segs[pos[k]].value))
                    /\ \A k \in 1..Len(ins) : ins[k].range.sc < ins[k].range.ec
                    /\ \A k \in 1..(Len(ins) - 1) :
                           ins[k].range.ec <= ins[k + 1].range.sc
                    /\ \A k \in 1..Len(ms) : ms[k].range.sc <= Len(new)
                    /\ end = Len(new)

\* 'b' became 'aba': two inserted ranges, [0, 1) and [2, 3), around the
\* kept 'b'.
C27_Witness ==
    /\ pc = "done"
    /\ IsShownPair(parsedDiff[1], 1)
    /\ parsedDiff[1].lines[1].content = <<"b">>
    /\ parsedDiff[1].lines[2].content = <<"a", "b", "a">>
    /\ Bundle.addedTexts
           = << [range |-> Range(0, 0, 0, 1)], [range |-> Range(0, 2, 0, 3)] >>

(***************************************************************************)
(* Properties of the whole-line annotations.                               *)
(***************************************************************************)
\* Record i is added and is not the second half of a modification.
IsPureAddition(h, i) == IsAdded(h, i) /\ ~IsRemoved(h, i - 1)

\* C28: a pure addition (an added record that is first in its hunk or whose
\* preceding record is not removed) on a line of the document yields exactly
\* one whole-line-added entry for the line, no whole-line-modified entry
\* and no deleted-text marker, and one inserted range [0, L) with L the
\* length of the live text of the line when L > 0, none when the live line
\* is empty; the content recorded in the hunk plays no part.
C28_PureAddition ==
    pc = "done" =>
        \A h \in Hunks : \A i \in 1..Len(h.lines) :
            (IsPureAddition(h, i) /\ InDocument(EditorLineOf(h, i))) =>
                LET e == EditorLineOf(h, i)
                    L == Len(document[e + 1])
                IN  /\ EntriesOn(Bundle.addedLines, e) = <<[range |-> Range(e, 0, e, 0)]>>
                    /\ OnLine(Bundle.modifiedLines, e) = 0
                    /\ OnLine(Bundle.deletedCharacterMarkers, e) = 0
                    /\ EntriesOn(Bundle.addedTexts, e)
                           = IF L > 0 THEN <<[range |-> Range(e, 0, e, L)]>> ELSE <<>>

\* Two pure additions of 'ab', the first on a live line 'ab' and the second
\* on an empty live line.
C28_Witness ==
    /\ pc = "done"
    /\ document = << <<"a", "b">>, <<>> >>
    /\ parsedDiff[1].newStart = 1
    /\ IsPureAddition(parsedDiff[1], 1) /\ IsPureAddition(parsedDiff[1], 2)
    /\ Len(Bundle.addedLines) = 2
    /\ Bundle.addedTexts = <<[range |-> Range(0, 0, 0, 2)]>>

\* The added records, over all hunks, whose editor line is in the document.
ShownAdditions ==
    { ki \in UNION { { <<k, i>> : i \in 1..Len(parsedDiff[k].lines) } :
                        k \in 1..Len(parsedDiff) } :
        /\ IsAdded(parsedDiff[ki[1]], ki[2])
        /\ InDocument(EditorLineOf(parsedDiff[ki[1]], ki[2])) }

\* The editor lines of a list of whole-line entries grow strictly.
StrictlyIncreasingLines(entries) ==
    \A k \in 1..(Len(entries) - 1) : entries[k].range.sl < entries[k + 1].range.sl

\* C29: every added record whose editor line is in the document yields
\* exactly one whole-line annotation, whole-line-added or
\* whole-line-modified and never both, so the two lists together have as
\* many entries as there are such records; the lines of each list grow
\* strictly in record order; and with hunks on disjoint lines, in file
\* order, no editor line is annotated twice.
C29_OneWholeLineAnnotation ==
    pc = "done" =>
        /\ Len(Bundle.addedLines) + Len(Bundle.modifiedLines)
               = Cardinality(ShownAdditions)
        /\ \A ki \in ShownAdditions :
               LET e == EditorLineOf(parsedDiff[ki[1]], ki[2])
               IN  OnLine(Bundle.addedLines, e) + OnLine(Bundle.modifiedLines, e) = 1
        /\ StrictlyIncreasingLines(Bundle.addedLines)
        /\ StrictlyIncreasingLines(Bundle.modifiedLines)

\* A modification in the first hunk and a pure addition in the second, both
\* in the document.
C29_Witness ==
    /\ pc = "done"
    /\ Len(parsedDiff) = 2
    /\ Bundle.modifiedLines = <<[range |-> Range(0, 0, 0, 0)]>>
    /\ Bundle.addedLines = <<[range |-> Range(1, 0, 1, 0)]>>
    /\ IsShownPair(parsedDiff[1], 1)
    /\ IsPureAddition(parsedDiff[2], 1)

(***************************************************************************)
(* Properties of lines that start like a header (SpecHeaders).             *)
(***************************************************************************)
StartsLikeHeader(line) == CharAt(line, 1, "@") /\ CharAt(line, 2, "@")

\* A line that begins with '@@' and that the parser's pattern rejects.
IsMalformedHeader(line) == StartsLikeHeader(line) /\ ~HunkHeaderMatch(line).matched
IsMalformedForExtension(line) ==
    StartsLikeHeader(line) /\ ~extension_HeaderMatch(line).matched

\* The text without the lines that satisfy Skipped.
Without(Skipped(_)) ==
    JoinLines(SelectSeq(TextLines, LAMBDA line : ~Skipped(line)))

\* C30: a line that begins with '@@' and does not match the header pattern
\* is skipped: it opens no hunk, closes none and gives no record, and the
\* body lines after it go to the hunk that was open before it (or nowhere
\* when none was).  Parsing the text gives what parsing the text without
\* these lines gives, for the parser of diffParser.ts and for the one of
\* extension.ts, each with its own pattern.
C30_MalformedHeadersSkipped ==
    pc = "read" =>
        /\ parseResult = parseGitDiff(Without(IsMalformedHeader))
        /\ extParseResult = extension_parseGitDiff(Without(IsMalformedForExtension))

\* '@@ -1,1 +1,2 @@', '@@ -x +1 @@', '+a': both parsers return the one hunk
\* of the header with the record of '+a'.
C30_Witness ==
    /\ pc = "read"
    /\ TextLines = <<FullHeader, NearHeader, <<"+", "a">>>>
    /\ Len(parseResult) = 1
    /\ parseResult[1].lines = <<[type |-> "added", content |-> <<"a">>]>>
    /\ extParseResult = parseResult

(***************************************************************************)
(* Properties of the event handlers (SpecEvents).                          *)
(***************************************************************************)
\* The step is the onDidChangeActiveTextEditor handler.
ActiveEditorStep == lastEvent'.kind = "activeEditor" /\ activeEditor' # activeEditor

\* C31: when the active editor changes while the feature is enabled, no
\* debounce timer stays pending, updateTimeout is null, and a run of
\* showDiffForEditor for the new editor has started; when the feature is
\* disabled or there is no new editor, the timers, updateTimeout and the
\* decorations are as before.
C31_ActiveEditorChange ==
    [][ActiveEditorStep =>
          IF inlineDiffDecorationEnabled /\ activeEditor' # NoEditor
          THEN /\ timers' = {}
               /\ updateTimeout' = 0
               /\ \E r \in runs' \ runs :
                      /\ r.editor = activeEditor'
                      /\ r.stage = "status"
                      /\ r.id = nextRun
          ELSE /\ timers' = timers
               /\ updateTimeout' = updateTimeout
               /\ runs' = runs
               /\ deco' = deco]_vars

\* The feature was switched on by run 1, one timer was set and never
\* fired, and the change of the active editor has just cancelled it and
\* started run 2.
C31_Witness ==
    /\ pc = "events"
    /\ lastEvent.kind = "activeEditor"
    /\ lastEvent.editor = activeEditor
    /\ activeEditor # NoEditor
    /\ inlineDiffDecorationEnabled
    /\ nextTimer = 2
    /\ nextRun = 3
    /\ timers = {}
    /\ updateTimeout = 0
    /\ \E r \in runs : r.id = 2 /\ r.editor = activeEditor /\ ~r.toggle

\* An invocation of the toggle command with an active editor completes in
\* this step: the branch that clears, or the invocation resuming behind
\* its await.
ToggleCompletes ==
    \/ lastEvent'.kind = "toggle" /\ lastEvent'.editor # NoEditor
          /\ inlineDiffDecorationEnabled
    \/ lastEvent'.kind = "toggleResumes" /\ resuming' < resuming

\* The step is the toggle command invoked without an active editor.
ToggleWithoutEditor ==
    lastEvent'.kind = "toggle" /\ lastEvent'.editor = NoEditor

\* C32: every completed invocation of the toggle command with an active
\* editor flips inlineDiffDecorationEnabled (so the flag is set exactly
\* after an odd number of them), overlapping invocations included; an
\* invocation without an active editor changes neither the flag nor any
\* decoration.
C32_ToggleFlips ==
    [][/\ ToggleCompletes =>
             inlineDiffDecorationEnabled' = ~inlineDiffDecorationEnabled
       /\ ToggleWithoutEditor =>
             /\ inlineDiffDecorationEnabled' = inlineDiffDecorationEnabled
             /\ deco' = deco]_vars

(***************************************************************************)
(* Properties of the DecorationManager (SpecManager).                      *)
(***************************************************************************)
\* Managed type t has a non-empty decoration list on editor ed.
ShowsType(ed, t) == deco.shown[ed][t] # 0

\* No managed type has a decoration on ed and ed has no map entry.
ManagerCleared(ed) ==
    /\ \A t \in ManagedTypes : ~ShowsType(ed, t)
    /\ ~deco.tracked[ed].has

\* C33: after any sequence of applyDecorations, clearDecorations and
\* clearAllDecorations, a managed type has a non-empty decoration list on
\* an editor only if activeEditorDecorations lists it for that editor;
\* after clearDecorations(editor) the four types are empty on the editor and
\* its entry is gone; after clearAllDecorations every editor is cleared and
\* the map is empty.
C33_ManagerTracking ==
    pc = "manager" =>
        /\ \A ed \in Editors : \A t \in ManagedTypes :
               ShowsType(ed, t) =>
                   deco.tracked[ed].has /\ t \in deco.tracked[ed].types
        /\ lastEvent.kind = "clearDecorations" => ManagerCleared(lastEvent.editor)
        /\ lastEvent.kind = "clearAllDecorations" =>
               \A ed \in Editors : ManagerCleared(ed)

\* One editor shows two types and lists them, and the other has just been
\* cleared by clearDecorations.
C33_Witness ==
    /\ pc = "manager"
    /\ lastEvent = Event("clearDecorations", "e2")
    /\ ManagerCleared("e2")
    /\ deco.tracked["e1"] = [has |-> TRUE, types |-> {"addedLines", "addedTexts"}]
    /\ ShowsType("e1", "addedLines") /\ ShowsType("e1", "addedTexts")
    /\ ~ShowsType("e1", "modifiedLines")

\* C34: after a document-close event for the document of an editor, the
\* editor has no entry in activeEditorDecorations and none in
\* activeDeletedLineDecorations, and none of the deleted-line decoration
\* types created for it is left undisposed, whether or not the editor was
\* still among the visible editors when the event was delivered.
C34_ClosedEditorUntracked ==
    (pc = "events" /\ lastEvent.kind = "close") =>
        /\ ~deco.tracked[lastEvent.editor].has
        /\ ~deco.deleted[lastEvent.editor].has
        /\ deco.ghosts[lastEvent.editor] = {}

(***************************************************************************)
(* Hunks are projected one by one (SpecHunks).                             *)
(***************************************************************************)
\* What calculateDecorations returns for hunk k alone, on the same document.
AloneResult(k) == calculateDecorations(<<parsedDiff[k]>>, document)

\* The lists of a category (or the ghost lists) of the hunks taken alone,
\* one after the other.
AloneBundles(cat) ==
    Concat([k \in 1..Len(parsedDiff) |-> AloneResult(k).decorationOptions[cat]])
AloneGhosts ==
    Concat([k \in 1..Len(parsedDiff) |-> AloneResult(k).inlineDeletedLineOptions])

\* C35: hunks are projected independently.  For a hunk sequence and a
\* document, each category of the result and the ghost list are the
\* concatenation, in hunk order, of what calculateDecorations returns for
\* each hunk alone; a removed record at the end of a hunk does not turn the
\* added record that opens the next hunk into a modification.
C35_HunksIndependent ==
    pc = "done" =>
        /\ \A cat \in ManagedTypes : Bundle[cat] = AloneBundles(cat)
        /\ Ghosts = AloneGhosts

\* The first hunk ends with a removed record and the second opens with an
\* added record on a line of the document: a ghost and a whole-line-added
\* entry, no modification.
C35_Witness ==
    /\ pc = "done"
    /\ Len(parsedDiff) = 2
    /\ IsRemoved(parsedDiff[1], Len(parsedDiff[1].lines))
    /\ IsAdded(parsedDiff[2], 1)
    /\ InDocument(EditorLineOf(parsedDiff[2], 1))
    /\ OnLine(Bundle.addedLines, EditorLineOf(parsedDiff[2], 1)) = 1
    /\ Bundle.modifiedLines = <<>>
    /\ Len(Ghosts) = 1

(***************************************************************************)
(* Properties of the diffStrings of extension.ts (SpecDiff).               *)
(***************************************************************************)
\* The greatest element of a non-empty set of numbers.
Greatest(S) == CHOOSE n \in S : \A m \in S : m <= n

\* The length of the longest common prefix of the two strings.
CommonPrefix ==
    Greatest({ k \in 0..Min(Len(oldStr), Len(newStr)) :
                 SubSeq(oldStr, 1, k) = SubSeq(newStr, 1, k) })

\* The length of the longest common suffix of what the prefix leaves.
CommonSuffix ==
    Greatest({ k \in 0..(Min(Len(oldStr), Len(newStr)) - CommonPrefix) :
                 SubSeq(oldStr, Len(oldStr) - k + 1, Len(oldStr))
                     = SubSeq(newStr, Len(newStr) - k + 1, Len(newStr)) })

\* A segment when it is not empty, nothing otherwise.
Segment(type, start, length) ==
    IF length > 0 THEN <<Change(type, start, start + length)>> ELSE <<>>

\* C36: with p the common-prefix length, s the common-suffix length, r the
\* removed length and a the added length, p + s <= min(|old|, |new|),
\* p + r + s = |old|, p + a + s = |new|, no segment is empty, and the
\* segments are, in this order, the unchanged prefix, the removed and the
\* added segment (both from column p), and the unchanged suffix.
C36_PrefixSuffixSegments ==
    pc = "diffed" =>
        LET p == CommonPrefix
            s == CommonSuffix
            r == Len(oldStr) - p - s
            a == Len(newStr) - p - s
        IN  /\ p + s <= Min(Len(oldStr), Len(newStr))
            /\ r >= 0 /\ a >= 0
            /\ \A k \in 1..Len(changes) : changes[k].start < changes[k].end
            /\ changes = Segment("unchanged", 0, p)
                              \o Segment("removed", p, r)
                              \o Segment("added", p, a)
                              \o Segment("unchanged", Len(oldStr) - s, s)

\* 'aba' against 'aaa': prefix 'a', removed 'b', added 'a', suffix 'a'.
C36_Witness ==
    /\ pc = "diffed"
    /\ oldStr = <<"a", "b", "a">>
    /\ newStr = <<"a", "a", "a">>
    /\ changes = << Change("unchanged", 0, 1), Change("removed", 1, 2),
                    Change("added", 1, 2), Change("unchanged", 2, 3) >>

====
